---- MODULE Spec2Model ----
(***************************************************************************)
(* The script bridge of the UPBGE Node.js SDK: a JavaScript controller     *)
(* script runs in an external Node.js process, its calls to the `bge`      *)
(* stand-in API are queued as commands, the queue travels back on stdout   *)
(* behind the marker ___BGE_CMDS___, and the host replays it on the live   *)
(* scene (python/runtime/nodejs.py, python/game_engine/script_handler.py,  *)
(* python/game_engine/python_wrapper.py).                                  *)
(***************************************************************************)
EXTENDS Integers, Sequences, FiniteSets, TLC

VARIABLES
    world,            \* the live scene graph: object name -> game object
    raycast_results,  \* script_handler._raycast_results
    vehicle_constraints, \* script_handler._vehicle_constraints
    game,             \* what bge.logic.endGame / restartGame left behind
    gravity,          \* the gravity of the physics world (bge.constraints.setGravity)
    batch,            \* the last _apply_commands call and the state after each command
    use_worker,       \* NodeJSRuntime._use_worker
    worker_exec_id,   \* NodeJSRuntime._worker_exec_id
    worker_process,   \* NodeJSRuntime._worker_process: a process id, 0 for None
    proc,             \* the worker process at the other end of the pipes
    spawned,          \* how many worker processes were started so far
    pc,               \* where the host thread is inside execute_controller_script
    call,             \* the invocation in progress
    run,              \* what execute_with_context returned last
    js,               \* the wrapped program that ran last, seen from inside
    ret,              \* what execute_controller_script returned last
    calls,            \* invocations so far
    wire,             \* the last _extract_commands call: the text given and the list returned
    children,         \* the processes subprocess.run started, each with the state it was left in
    built,            \* the last _build_context call: what failed in it and the snapshot returned
    interactive_context, \* NodeJSRuntime._interactive_context
    console,          \* the execute_interactive calls so far, and the code the last one had evaluated
    texts,            \* bpy.data.texts: the text blocks of the file, by name
    controller_text,  \* controller.text of each Python controller: the name of a text block, <<>> for none
    setup             \* the script each controller was set up for, and the operator calls so far

hostVars == <<world, raycast_results, vehicle_constraints, game, gravity>>
workerVars == <<worker_exec_id, worker_process, proc, spawned>>
wrapperVars == <<texts, controller_text, setup>>
vars == <<world, raycast_results, vehicle_constraints, game, gravity, batch, use_worker, worker_exec_id, worker_process,
          proc, spawned, pc, call, run, js, ret, calls, wire, children, built, interactive_context, console,
          texts, controller_text, setup>>

(***************************************************************************)
(* Bounds of the model.                                                    *)
(***************************************************************************)
\* Longest command list handed to _apply_commands on its own.
MaxCmds == 2
\* Longest user script, in statements.
MaxStmts == 2
\* Invocations of execute_controller_script in one session of the runtime.
MaxCalls == 2

(***************************************************************************)
(* JSON values, as json.loads hands them to the interpreter.  Every value  *)
(* carries its kind, so that a number where a list is expected is a case.  *)
(***************************************************************************)
JNull == [k |-> "null", n |-> 0, a |-> <<>>]
JNum(x) == [k |-> "num", n |-> x, a |-> <<>>]
JArr(s) == [k |-> "arr", n |-> 0, a |-> s]

\* Python truthiness of a JSON value: None, 0 and [] are falsy.
Truthy(v) ==
    \/ v.k = "num" /\ v.n # 0
    \/ v.k = "arr" /\ v.a # <<>>

\* len(v) raises TypeError on a number (and is not reached on None).
LenRaises(v) == v.k = "num"

\* `v is not None and len(v) >= 3`, where the test does not raise.
IsVec3(v) == v.k = "arr" /\ Len(v.a) >= 3

(***************************************************************************)
(* Commands: {op, object?, scene?, ...op fields}.  A field the command     *)
(* does not carry reads as "" (strings) or JNull (cmd.get gives None).     *)
(***************************************************************************)
NoCmd ==
    [op |-> "", object |-> "", scene |-> "", value |-> JNull, vec |-> JNull,
     property |-> "", to |-> JNull, target |-> "", wheel |-> "", force |-> JNull]

CmdSetPosition(o, s, v) == [NoCmd EXCEPT !.op = "setPosition", !.object = o, !.scene = s, !.value = v]
CmdSetProperty(o, s, p, v) ==
    [NoCmd EXCEPT !.op = "setProperty", !.object = o, !.scene = s, !.property = p, !.value = v]
CmdApplyMovement(o, s, v) == [NoCmd EXCEPT !.op = "applyMovement", !.object = o, !.scene = s, !.vec = v]
CmdRayCast(o, s, t) == [NoCmd EXCEPT !.op = "rayCast", !.object = o, !.scene = s, !.to = t]
\* rayCastTo with the name of its target object ("" for a target that is
\* neither a name nor a point).
CmdRayCastTo(o, s, t) == [NoCmd EXCEPT !.op = "rayCastTo", !.object = o, !.scene = s, !.target = t]
CmdGlobal(op) == [NoCmd EXCEPT !.op = op]
CmdCreateVehicle(o, s) == [NoCmd EXCEPT !.op = "createVehicle", !.object = o, !.scene = s]
CmdVehicleAddWheel(o, s, w) ==
    [NoCmd EXCEPT !.op = "vehicleAddWheel", !.object = o, !.scene = s, !.wheel = w]
CmdVehicleApplyEngineForce(o, s, f) ==
    [NoCmd EXCEPT !.op = "vehicleApplyEngineForce", !.object = o, !.scene = s, !.force = f]
CmdVehicleSetSteeringValue(o, s, v) ==
    [NoCmd EXCEPT !.op = "vehicleSetSteeringValue", !.object = o, !.scene = s, !.value = v]
CmdVehicleApplyBraking(o, s, f) ==
    [NoCmd EXCEPT !.op = "vehicleApplyBraking", !.object = o, !.scene = s, !.force = f]

(***************************************************************************)
(* The host scene.  An object's worldOrientation is kept as the number of  *)
(* quarter turns about the world Z axis that take its local axes to the    *)
(* world's; its replicas are the scenes scene.addObject has put a copy of  *)
(* it in, in the order of the calls.                                       *)
(***************************************************************************)
ObjNames == {"Player", "Enemy"}
PropNames == {"hp"}
MainScene == "Main"
HudScene == "HUD"
SceneList == {MainScene, HudScene}

\* A property the object does not have.
Undef == [k |-> "undef", n |-> 0, a |-> <<>>]

InitWorld ==
    [o \in ObjNames |->
        [scene |-> MainScene,
         worldPosition |-> IF o = "Player" THEN <<1, 2, 3>> ELSE <<0, 0, 0>>,
         worldOrientation |-> 0,
         replicas |-> <<>>,
         props |-> [p \in PropNames |-> Undef]]]

NoRay == [has |-> FALSE, object |-> "", point |-> JNull, normal |-> JNull]
NullRay == [has |-> TRUE, object |-> "", point |-> JNull, normal |-> JNull]
RayOf(hit) == [has |-> TRUE, object |-> hit.object, point |-> hit.point, normal |-> hit.normal]

\* An entry of _vehicle_constraints: the vehicle constraint of a chassis, with
\* what the commands did to it; has = FALSE for a name the table does not hold.
NoVehicle ==
    [has |-> FALSE, id |-> 0, wheels |-> <<>>, engineForce |-> 0, steering |-> 0, braking |-> 0]

\* obj.getPhysicsId(): 0 for an object without a physics body.
PhysicsId(obj_name) == IF obj_name = "Player" THEN 1 ELSE 0

\* What KX_GameObject.rayCast returns: (object, point, normal), all None on a miss.
RayMiss == [object |-> "", point |-> JNull, normal |-> JNull]
RayHitEnemy == [object |-> "Enemy", point |-> JArr(<<0, 0, 0>>), normal |-> JArr(<<0, 0, 1>>)]
RayHits == {RayMiss, RayHitEnemy}

\* How many of the host calls a command makes raise: none, the primitive, or the
\* primitive and its fallback.
HostFaults == {"ok", "primary", "all"}

\* _scene_get_object: the object of that name in the scene, "" for None.
SceneGetObject(w, scene, obj_name) ==
    IF scene = "" \/ obj_name = "" THEN ""
    ELSE IF obj_name \in DOMAIN w /\ w[obj_name].scene = scene THEN obj_name
    ELSE ""

\* A scene resolution that takes the current scene when the name of the
\* snapshot matches no scene.
ResolveSceneFallingBack(context, lookup) ==
    IF lookup = "all" THEN ""
    ELSE IF lookup = "primary" THEN MainScene
    ELSE IF context.scene_name \in SceneList THEN context.scene_name
    ELSE MainScene

\* _apply_commands, lines 113-142: the scene the batch is applied to, "" for
\* None.  The named scene is looked up in getSceneList(), the current scene
\* is taken when the snapshot names none; when that raises (lookup =
\* "primary") the current scene is taken, and when getCurrentScene() raises
\* as well (lookup = "all") there is no scene.
ResolveSceneWith(context, lookup) ==
    IF lookup = "all" THEN ""
    ELSE IF lookup = "primary" THEN MainScene
    ELSE IF context.scene_name # ""
    THEN (IF context.scene_name \in SceneList THEN context.scene_name ELSE "")
    ELSE MainScene

\* The same with a host that does not raise.
ResolveScene(context) == ResolveSceneWith(context, "ok")

\* The gravity of a new physics world and the default of setGravity,
\* [0, 0, -9.81]; the numbers of the model are whole.
DefaultGravity == <<0, 0, -10>>

Host(w, r, v, g, gr) == [world |-> w, raycast |-> r, vehicles |-> v, game |-> g, gravity |-> gr]

VecAdd(p, v) == <<p[1] + v[1], p[2] + v[2], p[3] + v[3]>>

(***************************************************************************)
(* One iteration of the loop of _apply_commands.                           *)
(***************************************************************************)
ApplyRayCast(h, cmd, obj_name, fault, hit) ==
    IF ~Truthy(cmd.to) THEN h
    ELSE IF LenRaises(cmd.to) THEN h          \* TypeError, caught by the loop
    ELSE IF Len(cmd.to.a) < 3 THEN h
    ELSE IF fault # "ok"
         THEN [h EXCEPT !.raycast[obj_name] = NullRay]
         ELSE [h EXCEPT !.raycast[obj_name] = RayOf(hit)]

\* A rayCastTo that stores the whole hit, point and normal with the name.
ApplyRayCastToWithPoint(h, cmd, obj_name, scene, fault, hit) ==
    LET tgt == SceneGetObject(h.world, scene, cmd.target)
    IN IF tgt # "" /\ fault # "ok" THEN [h EXCEPT !.raycast[obj_name] = NullRay]
       ELSE IF tgt # "" THEN [h EXCEPT !.raycast[obj_name] = RayOf(hit)]
       ELSE [h EXCEPT !.raycast[obj_name] = NullRay]

\* Lines 267-288: the target is looked up in the scene, the host's
\* rayCastTo gives the object hit or None, and the name alone is stored.
ApplyRayCastTo(h, cmd, obj_name, scene, fault, hit) ==
    LET tgt == SceneGetObject(h.world, scene, cmd.target)
    IN IF tgt # "" /\ fault # "ok" THEN [h EXCEPT !.raycast[obj_name] = NullRay]
       ELSE IF tgt # ""
       THEN [h EXCEPT !.raycast[obj_name] =
                         [has |-> TRUE, object |-> hit.object, point |-> JNull, normal |-> JNull]]
       ELSE [h EXCEPT !.raycast[obj_name] = NullRay]

\* A vector of the object's local axes, in world axes.
LocalToWorld(turns, v) ==
    IF turns % 4 = 0 THEN <<v[1], v[2], v[3]>>
    ELSE IF turns % 4 = 1 THEN <<0 - v[2], v[1], v[3]>>
    ELSE IF turns % 4 = 2 THEN <<0 - v[1], 0 - v[2], v[3]>>
    ELSE <<v[2], 0 - v[1], v[3]>>

\* An applyMovement that sums the vector into the position after the
\* primitive, whether the primitive raised or not.
ApplyMovementTwice(h, cmd, obj_name, fault) ==
    LET vec == IF Truthy(cmd.vec) THEN cmd.vec
               ELSE IF Truthy(cmd.value) THEN cmd.value
               ELSE JArr(<<0, 0, 0>>)
        ok == vec.k = "arr" /\ Len(vec.a) >= 3
        obj == h.world[obj_name]
        moved == IF fault = "ok"
                 THEN VecAdd(obj.worldPosition, LocalToWorld(obj.worldOrientation, vec.a))
                 ELSE obj.worldPosition
    IN IF ~ok \/ fault = "all" THEN h
       ELSE [h EXCEPT !.world[obj_name].worldPosition = VecAdd(moved, vec.a)]

\* applyMovement, lines 398-411: obj.applyMovement(vec, True) moves the object
\* by vec along its local axes; when it raises, vec is summed into
\* worldPosition, and when that raises too nothing is done.
ApplyMovementOp(h, cmd, obj_name, fault) ==
    LET vec == IF Truthy(cmd.vec) THEN cmd.vec
               ELSE IF Truthy(cmd.value) THEN cmd.value
               ELSE JArr(<<0, 0, 0>>)
        ok == vec.k = "arr" /\ Len(vec.a) >= 3
        obj == h.world[obj_name]
    IN IF ~ok \/ fault = "all" THEN h
       ELSE IF fault = "ok"
       THEN [h EXCEPT !.world[obj_name].worldPosition =
                         VecAdd(@, LocalToWorld(obj.worldOrientation, vec.a))]
       ELSE [h EXCEPT !.world[obj_name].worldPosition = VecAdd(@, vec.a)]

\* A setPosition that moves the object by the value instead of to it.
ApplySetPositionRelative(h, cmd, obj_name, fault) ==
    IF ~IsVec3(cmd.value) \/ fault # "ok" THEN h
    ELSE [h EXCEPT !.world[obj_name].worldPosition =
                      [i \in 1..3 |-> @[i] + cmd.value.a[i]]]

ApplySetPosition(h, cmd, obj_name, fault) ==
    IF cmd.value.k = "null" THEN h
    ELSE IF LenRaises(cmd.value) THEN h
    ELSE IF Len(cmd.value.a) < 3 THEN h
    ELSE IF fault # "ok" THEN h
    ELSE [h EXCEPT !.world[obj_name].worldPosition = cmd.value.a]

ApplySetProperty(h, cmd, obj_name, fault) ==
    IF cmd.property = "" THEN h
    ELSE IF fault # "ok" THEN h
    ELSE [h EXCEPT !.world[obj_name].props[cmd.property] = cmd.value]

\* The constraint bge.constraints.createVehicle returns: a new one at each call.
NewVehicle(vehicles) ==
    [NoVehicle EXCEPT !.has = TRUE,
                      !.id = 1 + Cardinality({o \in DOMAIN vehicles : vehicles[o].has})]

\* A createVehicle that asks the host for a constraint whether the table has
\* one for the chassis or not.
ApplyCreateVehicleAlways(h, obj_name, fault) ==
    IF fault # "ok" THEN h
    ELSE IF PhysicsId(obj_name) = 0 THEN h
    ELSE [h EXCEPT !.vehicles[obj_name] = NewVehicle(h.vehicles)]

\* createVehicle, lines 290-301.
ApplyCreateVehicle(h, obj_name, fault) ==
    IF h.vehicles[obj_name].has THEN h
    ELSE IF fault # "ok" THEN h
    ELSE IF PhysicsId(obj_name) = 0 THEN h
    ELSE [h EXCEPT !.vehicles[obj_name] = NewVehicle(h.vehicles)]

\* float(cmd.get(field, 0)) raises on anything but a number.
FloatRaises(v) == v.k \notin {"null", "num"}
FloatOf(v) == IF v.k = "num" THEN v.n ELSE 0

\* vehicleApplyEngineForce, vehicleSetSteeringValue, vehicleAddWheel and
\* vehicleApplyBraking, lines 302-360: they act on the constraint the table
\* holds for the chassis, and do nothing without one.
ApplyVehicleOp(h, cmd, obj_name, scene, fault) ==
    LET vehicle == h.vehicles[obj_name]
    IN CASE cmd.op = "vehicleApplyEngineForce" ->
              IF FloatRaises(cmd.force) \/ ~vehicle.has \/ fault # "ok" THEN h
              ELSE [h EXCEPT !.vehicles[obj_name].engineForce = FloatOf(cmd.force)]
         [] cmd.op = "vehicleSetSteeringValue" ->
              IF FloatRaises(cmd.value) \/ ~vehicle.has \/ fault # "ok" THEN h
              ELSE [h EXCEPT !.vehicles[obj_name].steering = FloatOf(cmd.value)]
         [] cmd.op = "vehicleApplyBraking" ->
              IF FloatRaises(cmd.force) \/ ~vehicle.has \/ fault # "ok" THEN h
              ELSE [h EXCEPT !.vehicles[obj_name].braking = FloatOf(cmd.force)]
         [] cmd.op = "vehicleAddWheel" ->
              IF cmd.wheel = "" \/ SceneGetObject(h.world, scene, cmd.wheel) = ""
                 \/ ~vehicle.has \/ fault # "ok"
              THEN h
              ELSE [h EXCEPT !.vehicles[obj_name].wheels = Append(@, cmd.wheel)]
         [] OTHER -> h

VehicleOps ==
    {"vehicleApplyEngineForce", "vehicleSetSteeringValue", "vehicleAddWheel", "vehicleApplyBraking"}

\* An endGame or restartGame that empties the two tables of the module.
ApplyGlobalClearing(h, cmd, fault) ==
    IF fault # "ok" THEN h
    ELSE [h EXCEPT !.game = IF cmd.op = "endGame" THEN "ended" ELSE "restarted",
                   !.raycast = [o \in DOMAIN h.raycast |-> NoRay],
                   !.vehicles = [o \in DOMAIN h.vehicles |-> NoVehicle]]

\* endGame and restartGame, lines 151-162.
ApplyGlobal(h, cmd, fault) ==
    IF fault # "ok" THEN h
    ELSE [h EXCEPT !.game = IF cmd.op = "endGame" THEN "ended" ELSE "restarted"]

\* The object of that name in any scene of getSceneList(), "" for None.
SceneListGetObject(w, obj_name) ==
    IF obj_name \in DOMAIN w /\ w[obj_name].scene \in SceneList THEN obj_name ELSE ""

\* sceneAddObject, lines 503-521: the object to add is looked up in the
\* scene of the batch, then in every scene, and a copy of it is added at the
\* owner of the snapshot.
ApplySceneAddObject(h, cmd, context, scene, fault) ==
    LET own == SceneGetObject(h.world, scene, cmd.object)
        add_obj == IF own # "" THEN own ELSE SceneListGetObject(h.world, cmd.object)
        owner_obj == SceneGetObject(h.world, scene, context.object_name)
    IN IF cmd.object = "" \/ add_obj = "" \/ owner_obj = "" \/ fault # "ok" THEN h
       ELSE [h EXCEPT !.world[add_obj].replicas = Append(@, scene)]

\* setGravity, lines 163-172: the vector of the command, or the default.
ApplySetGravity(h, cmd, fault) ==
    LET vec == IF Truthy(cmd.vec) THEN cmd.vec
               ELSE IF Truthy(cmd.value) THEN cmd.value
               ELSE JArr(DefaultGravity)
    IN IF LenRaises(vec) THEN h
       ELSE IF Len(vec.a) < 3 THEN h
       ELSE IF fault # "ok" THEN h
       ELSE [h EXCEPT !.gravity = <<vec.a[1], vec.a[2], vec.a[3]>>]

\* An iteration that looks for the target object first, global op or not.
ApplyOneResolvingFirst(h, cmd, context, scene, fault, hit) ==
    LET obj_name == IF cmd.object # "" THEN cmd.object ELSE context.object_name
        obj == SceneGetObject(h.world, scene, obj_name)
    IN IF obj_name = "" THEN h
       ELSE IF obj = "" THEN h
       ELSE CASE cmd.op \in {"endGame", "restartGame"} -> ApplyGlobal(h, cmd, fault)
              [] cmd.op = "setGravity" -> ApplySetGravity(h, cmd, fault)
              [] cmd.op = "rayCast" -> ApplyRayCast(h, cmd, obj, fault, hit)
              [] cmd.op = "rayCastTo" -> ApplyRayCastTo(h, cmd, obj, scene, fault, hit)
              [] cmd.op = "createVehicle" -> ApplyCreateVehicle(h, obj, fault)
              [] cmd.op \in VehicleOps -> ApplyVehicleOp(h, cmd, obj, scene, fault)
              [] cmd.op = "applyMovement" -> ApplyMovementOp(h, cmd, obj, fault)
              [] cmd.op = "setPosition" -> ApplySetPosition(h, cmd, obj, fault)
              [] cmd.op = "setProperty" -> ApplySetProperty(h, cmd, obj, fault)
              [] cmd.op = "sceneAddObject" -> ApplySceneAddObject(h, cmd, context, scene, fault)
              [] OTHER -> h

ApplyOne(h, cmd, context, scene, fault, hit) ==
    LET obj_name == IF cmd.object # "" THEN cmd.object ELSE context.object_name
        obj == SceneGetObject(h.world, scene, obj_name)
    IN IF cmd.op \in {"endGame", "restartGame"} THEN ApplyGlobal(h, cmd, fault)
       ELSE IF cmd.op = "setGravity" THEN ApplySetGravity(h, cmd, fault)
       ELSE IF obj_name = "" THEN h
       ELSE IF obj = "" THEN h
       ELSE CASE cmd.op = "rayCast" -> ApplyRayCast(h, cmd, obj, fault, hit)
              [] cmd.op = "rayCastTo" -> ApplyRayCastTo(h, cmd, obj, scene, fault, hit)
              [] cmd.op = "createVehicle" -> ApplyCreateVehicle(h, obj, fault)
              [] cmd.op \in VehicleOps -> ApplyVehicleOp(h, cmd, obj, scene, fault)
              [] cmd.op = "applyMovement" -> ApplyMovementOp(h, cmd, obj, fault)
              [] cmd.op = "setPosition" -> ApplySetPosition(h, cmd, obj, fault)
              [] cmd.op = "setProperty" -> ApplySetProperty(h, cmd, obj, fault)
              [] cmd.op = "sceneAddObject" -> ApplySceneAddObject(h, cmd, context, scene, fault)
              [] OTHER -> h

\* The ops the loop has a branch for (lines 151-549).
KnownOps ==
    {"endGame", "restartGame", "setGravity", "activate", "deactivate", "rayCast", "rayCastTo",
     "createVehicle", "vehicleApplyEngineForce", "vehicleSetSteeringValue", "vehicleAddWheel",
     "vehicleApplyBraking", "characterJump", "characterWalkDirection", "characterSetVelocity",
     "applyMovement", "setPosition", "setRotation", "lookAt", "setScale", "setProperty",
     "setLocalPosition", "setLocalRotation", "setParent", "sceneAddObject", "sceneRemoveObject",
     "setViewport", "setActiveCamera"}

\* The loop of an interpreter that raises on an op it has no branch for: the
\* batch ends there.
RECURSIVE ApplyLoopRaising(_, _, _, _, _, _, _)
ApplyLoopRaising(trace, commands, i, context, scene, faults, hit) ==
    IF i > Len(commands) THEN trace
    ELSE IF commands[i].op \notin KnownOps THEN trace
    ELSE ApplyLoopRaising(
            Append(trace, ApplyOne(trace[Len(trace)], commands[i], context, scene, faults[i], hit)),
            commands, i + 1, context, scene, faults, hit)

\* The loop `for cmd in commands`: the host state before the first command and
\* after each one.
RECURSIVE ApplyLoop(_, _, _, _, _, _, _)
ApplyLoop(trace, commands, i, context, scene, faults, hit) ==
    IF i > Len(commands) THEN trace
    ELSE ApplyLoop(
            Append(trace, ApplyOne(trace[Len(trace)], commands[i], context, scene, faults[i], hit)),
            commands, i + 1, context, scene, faults, hit)

\* The same loop with the per-command isolation lost: a command whose target
\* object is not found ends the batch.
RECURSIVE AbortingLoop(_, _, _, _, _, _, _)
AbortingLoop(trace, commands, i, context, scene, faults, hit) ==
    IF i > Len(commands) THEN trace
    ELSE IF /\ commands[i].op \notin {"endGame", "restartGame"}
            /\ SceneGetObject(trace[Len(trace)].world, scene,
                   IF commands[i].object # "" THEN commands[i].object ELSE context.object_name) = ""
         THEN trace
    ELSE AbortingLoop(
            Append(trace, ApplyOne(trace[Len(trace)], commands[i], context, scene, faults[i], hit)),
            commands, i + 1, context, scene, faults, hit)

ApplyCommandsAborting(h, commands, context, faults, hit) ==
    LET scene == ResolveScene(context)
    IN IF scene = "" THEN <<h>>
       ELSE AbortingLoop(<<h>>, commands, 1, context, scene, faults, hit)

\* _apply_commands(commands, context): nothing is applied when no scene resolves.
ApplyCommandsWith(h, commands, context, faults, hit, lookup) ==
    LET scene == ResolveSceneWith(context, lookup)
    IN IF scene = "" THEN <<h>>
       ELSE ApplyLoop(<<h>>, commands, 1, context, scene, faults, hit)

\* The same with a host that does not raise while the scene is resolved.
ApplyCommands(h, commands, context, faults, hit) ==
    ApplyCommandsWith(h, commands, context, faults, hit, "ok")

Last(s) == s[Len(s)]

(***************************************************************************)
(* The context snapshot of python_wrapper._build_context, for the fields   *)
(* the bridge reads.                                                       *)
(***************************************************************************)
\* A controller without an owner ("" here) leaves the defaults of lines 37-54.
BuildContext(w, owner) ==
    IF owner \notin DOMAIN w
    THEN [scene_name |-> "", object_name |-> "", position |-> JNull,
          properties |-> [p \in PropNames |-> Undef],
          object_positions |-> [o \in {} |-> JNull]]
    ELSE
    [scene_name |-> w[owner].scene,
     object_name |-> owner,
     position |-> JArr(w[owner].worldPosition),
     properties |-> w[owner].props,
     object_positions |->
        [o \in {x \in DOMAIN w : w[x].scene = w[owner].scene} |-> JArr(w[o].worldPosition)]]

(***************************************************************************)
(* _build_context step by step (python_wrapper.py lines 31-360).  A        *)
(* snapshot is seen here by its keys: each is at its default, or holds     *)
(* what the host gave for it.  The host is described by whether the engine *)
(* module is there, whether there is a current controller, whether the     *)
(* controller has an owner, and by the reads that raise.                   *)
(***************************************************************************)
ContextKeys ==
    {"scene_name", "object_name", "position", "rotation", "scale", "parent_name", "properties",
     "children", "object_positions", "scenes", "keyboard", "mouse", "joystick", "engine",
     "controller_name", "sensors"}

\* Lines 37-54.
DefaultContext == [k \in ContextKeys |-> "default"]

\* The keys read from the owner, each inside a try of its own (lines 72-155).
OwnerKeys ==
    {"scene_name", "position", "rotation", "scale", "parent_name", "properties", "children",
     "object_positions"}

\* The keys the sensor loop fills, all inside one try (lines 223-355).
SensorKeys == {"sensors", "keyboard", "mouse", "joystick"}

\* The reads of the host that are no key's own: bge.logic, getCurrentController()
\* and controller.owner (lines 58-60).
Preamble == {"logic", "controller", "owner"}

BuildSteps == Preamble \cup ContextKeys

\* ctx with the keys of ks read from the host, but for the ones whose read raises.
Populate(ctx, ks, fails) == [k \in ContextKeys |-> IF k \in ks \ fails THEN "host" ELSE ctx[k]]

\* A builder whose every step is guarded on its own: a read that raises costs
\* the keys that cannot be had without it, and no other.
BuildContextGuarded(bge, controller, owner, fails) ==
    LET hasController == controller /\ "controller" \notin fails
        hasOwner == hasController /\ owner /\ "owner" \notin fails
    IN IF ~bge \/ "logic" \in fails THEN DefaultContext
       ELSE Populate(DefaultContext,
                     (IF hasController THEN {"controller_name"} ELSE {})
                        \cup (IF hasOwner THEN OwnerKeys \cup {"object_name"} ELSE {})
                        \cup {"scenes", "engine"}
                        \cup (IF "controller" \notin fails THEN SensorKeys ELSE {}),
                     fails)

\* _build_context.  The outer try (lines 56-358) ends the build at the first
\* read that raises outside the inner ones; what was filled till then stays.
BuildContextKeys(bge, controller, owner, fails) ==
    IF ~bge THEN DefaultContext
    ELSE IF "logic" \in fails THEN DefaultContext
    ELSE IF "controller" \in fails THEN DefaultContext
    ELSE IF controller /\ "owner" \in fails THEN DefaultContext
    ELSE LET c1 == IF controller THEN Populate(DefaultContext, {"controller_name"}, fails)
                   ELSE DefaultContext
         IN IF controller /\ owner /\ "object_name" \in fails THEN c1
            ELSE LET c2 == IF controller /\ owner
                           THEN Populate(c1, OwnerKeys \cup {"object_name"}, fails)
                           ELSE c1
                     c3 == Populate(c2, {"scenes"}, fails)
                     c4 == Populate(c3, {"engine"}, {})
                 IN IF SensorKeys \cap fails # {} THEN c4
                    ELSE Populate(c4, SensorKeys, {})

NoBuilt == [done |-> FALSE, bge |-> FALSE, controller |-> FALSE, owner |-> FALSE, fails |-> {},
            raised |-> FALSE, ctx |-> DefaultContext]

\* The objects that carry a JavaScript controller.
Owners == {"Player"}

(***************************************************************************)
(* Output text.  A line is a sequence of tokens: the marker ___BGE_CMDS___, *)
(* a decimal digit, a tab, a JSON text, or other text (which holds neither *)
(* the marker nor a tab).  A JSON text is an array of commands ("json"),   *)
(* or some JSON that is not an array ("jobj").                             *)
(***************************************************************************)
Tok(t, s, n, cmds) == [t |-> t, s |-> s, n |-> n, cmds |-> cmds]
Marker == Tok("M", "", 0, <<>>)
Tab == Tok("tab", "", 0, <<>>)
Digit(d) == Tok("d", "", d, <<>>)
Txt(s) == Tok("txt", s, 0, <<>>)
JsonArray(cmds) == Tok("json", "", 0, cmds)
JsonObject == Tok("jobj", "", 0, <<>>)

\* str(n) for n >= 0, as digit tokens.
RECURSIVE Digits(_)
Digits(n) == IF n < 10 THEN <<Digit(n)>> ELSE Append(Digits(n \div 10), Digit(n % 10))

\* `pat in line` for Python strings: pat occurs as a contiguous part of line.
Contains(line, pat) ==
    \E i \in 0..(Len(line) - Len(pat)) : SubSeq(line, i + 1, i + Len(pat)) = pat

(***************************************************************************)
(* The script side: the bootstrap that execute_with_context wraps around   *)
(* the user code (nodejs.py lines 361-704).                                *)
(***************************************************************************)
\* A value JSON.stringify throws on (a BigInt).
JBig == [k |-> "big", n |-> 0, a |-> <<>>]

\* JavaScript's `v || dflt`, then Array.from: a number gives the empty array.
ArrayFrom(v, dflt) ==
    IF v.k = "arr" THEN v
    ELSE IF v.k = "num" /\ v.n # 0 THEN JArr(<<>>)
    ELSE dflt

\* A statement of a user script.
NoStmt ==
    [k |-> "", obj |-> "", prop |-> "", v |-> JNull, line |-> <<>>, msg |-> "", cmd |-> NoCmd,
     arg |-> ""]
StSetPosition(o, v) == [NoStmt EXCEPT !.k = "setPosition", !.obj = o, !.v = v]
StGetPosition(o) == [NoStmt EXCEPT !.k = "getPosition", !.obj = o]
StSetProperty(o, p, v) == [NoStmt EXCEPT !.k = "setProperty", !.obj = o, !.prop = p, !.v = v]
StGetProperty(o, p) == [NoStmt EXCEPT !.k = "getProperty", !.obj = o, !.prop = p]
StApplyMovement(o, v) == [NoStmt EXCEPT !.k = "applyMovement", !.obj = o, !.v = v]
\* obj.lookAt(target), scene.addObject(object), scene.removeObject(object):
\* arg is the name of the argument, "" for an argument that has none.
StLookAt(o, t) == [NoStmt EXCEPT !.k = "lookAt", !.obj = o, !.arg = t]
StAddObject(t) == [NoStmt EXCEPT !.k = "addObject", !.arg = t]
StRemoveObject(t) == [NoStmt EXCEPT !.k = "removeObject", !.arg = t]
StQueue(c) == [NoStmt EXCEPT !.k = "queue", !.cmd = c]
StLog(l) == [NoStmt EXCEPT !.k = "log", !.line = l]
StThrow(m) == [NoStmt EXCEPT !.k = "throw", !.msg = m]

\* __bgeMakeGameObject(name): objName = name || ctx.object_name || "".
GameObjectName(ctx, name) == IF name # "" THEN name ELSE ctx.object_name

\* A queue whose setters also update the local copy of the context, so that
\* a later read sees the value just written.
BgeQueueWriteThrough(env, cmd) ==
    [env EXCEPT !.commands = Append(@, cmd),
                !.ctx.position = IF cmd.op = "setPosition" /\ cmd.object = env.ctx.object_name
                                 THEN cmd.value ELSE @,
                !.ctx.object_positions =
                    [o \in DOMAIN @ |-> IF cmd.op = "setPosition" /\ cmd.object = o
                                        THEN cmd.value ELSE @[o]],
                !.ctx.properties =
                    [q \in DOMAIN @ |-> IF cmd.op = "setProperty" /\ cmd.object = env.ctx.object_name
                                           /\ cmd.property = q
                                        THEN cmd.value ELSE @[q]]]

\* __bgeQueue
BgeQueue(env, cmd) == [env EXCEPT !.commands = Append(@, cmd)]

\* __bgeQueueForObject(op, objName, extra): op, scene and object, then the extras.
BgeQueueForObject(env, op, objName, extra) ==
    BgeQueue(env,
        [extra EXCEPT !.op = op,
                      !.scene = env.ctx.scene_name,
                      !.object = IF objName # "" THEN objName ELSE env.ctx.object_name])

\* get position()
GetPosition(ctx, objName) ==
    IF objName \in DOMAIN ctx.object_positions /\ ctx.object_positions[objName].k = "arr"
    THEN ctx.object_positions[objName]
    ELSE IF ctx.object_name = objName /\ ctx.position.k = "arr" THEN ctx.position
    ELSE JArr(<<0, 0, 0>>)

\* getProperty(propName); null when absent or when the object is not the owner.
GetProperty(ctx, objName, propName) ==
    IF ctx.object_name = objName /\ propName \in DOMAIN ctx.properties
       /\ ctx.properties[propName].k # "undef"
    THEN ctx.properties[propName]
    ELSE JNull

Read(st, objName, value) == [k |-> st.k, obj |-> objName, prop |-> st.prop, value |-> value]

\* One statement of the user code, run in the bootstrap's environment.
\* A lookAt that queues its command whatever the target is.
LookAtAlways(env, objName, targetName) ==
    BgeQueue(env, [NoCmd EXCEPT !.op = "lookAt", !.object = objName, !.target = targetName])

\* lookAt(target): `if (targetName) __bgeQueue({op, object, target})`.
LookAt(env, objName, targetName) ==
    IF targetName # ""
    THEN BgeQueue(env, [NoCmd EXCEPT !.op = "lookAt", !.object = objName, !.target = targetName])
    ELSE env

\* addObject(object) and removeObject(object) of the current scene:
\* `if (oname) __bgeQueue({op, scene: sceneName, object: oname})`.
SceneProcedure(env, op, oname) ==
    IF oname # ""
    THEN BgeQueue(env, [NoCmd EXCEPT !.op = op, !.scene = env.ctx.scene_name, !.object = oname])
    ELSE env

RunStmt(env, st) ==
    LET objName == GameObjectName(env.ctx, st.obj)
    IN CASE st.k = "setPosition" ->
              BgeQueueForObject(env, "setPosition", objName,
                                [NoCmd EXCEPT !.value = ArrayFrom(st.v, JArr(<<0, 0, 0>>))])
         [] st.k = "applyMovement" ->
              BgeQueueForObject(env, "applyMovement", objName,
                                [NoCmd EXCEPT !.vec = ArrayFrom(st.v, JArr(<<0, 0, 0>>))])
         [] st.k = "setProperty" ->
              BgeQueueForObject(env, "setProperty", objName,
                                [NoCmd EXCEPT !.property = st.prop, !.value = st.v])
         [] st.k = "getPosition" ->
              [env EXCEPT !.reads = Append(@, Read(st, objName, GetPosition(env.ctx, objName)))]
         [] st.k = "getProperty" ->
              [env EXCEPT !.reads = Append(@, Read(st, objName, GetProperty(env.ctx, objName, st.prop)))]
         [] st.k = "lookAt" -> LookAt(env, objName, st.arg)
         [] st.k = "addObject" -> SceneProcedure(env, "sceneAddObject", st.arg)
         [] st.k = "removeObject" -> SceneProcedure(env, "sceneRemoveObject", st.arg)
         [] st.k = "queue" -> BgeQueue(env, st.cmd)
         [] st.k = "log" -> [env EXCEPT !.out = Append(@, st.line)]
         [] st.k = "throw" -> [env EXCEPT !.thrown = TRUE, !.msg = st.msg]
         [] OTHER -> env

\* The user code, statement by statement, up to the first throw.
RECURSIVE RunFrom(_, _, _)
RunFrom(env, script, i) ==
    IF i > Len(script) \/ env.thrown THEN env
    ELSE RunFrom(RunStmt(env, script[i]), script, i + 1)

DebugCtxLine == <<Txt("[UPBGE-JS] DEBUG ctx")>>
DebugCountLine == <<Txt("[UPBGE-JS] DEBUG __bgeCommands.length")>>

\* JSON.stringify(__bgeCommands) throws when a value cannot be serialized.
Serializable(cmds) == \A i \in 1..Len(cmds) : cmds[i].value.k # "big"

\* A Python value json.dumps has no encoding for (a Vector, a game object).
JObj == [k |-> "obj", n |-> 0, a |-> <<>>]

\* The `{}` that stands for the context when json.dumps raises: no key at all.
EmptyContext ==
    [scene_name |-> "", object_name |-> "", position |-> JNull,
     properties |-> [p \in PropNames |-> Undef],
     object_positions |-> [o \in {} |-> JNull]]

\* Lines 347-352: context_json is the context, or "{}" when json.dumps raises
\* on one of its values.
ContextJson(context) ==
    IF \E p \in DOMAIN context.properties : context.properties[p].k = "obj"
    THEN EmptyContext
    ELSE context

\* The wrapped program from its first line to its last: what it wrote to
\* stdout and stderr, whether it called process.exit(1), and what it read.
\*   lines 347-362  the context as it is injected
\*   lines 667-677  the DEBUG line before the user code
\*   lines 679-692  the user code; on a throw the error goes to stderr and the
\*                  process exits with code 1
\*   lines 694-703  the DEBUG line, then the marker line (or, when the queue
\*                  cannot be serialized, a line on stderr)
RunWrapped(script, context) ==
    LET env0 == [ctx |-> ContextJson(context), commands |-> <<>>, reads |-> <<>>,
                 out |-> <<DebugCtxLine>>,
                 thrown |-> FALSE, msg |-> ""]
        env == RunFrom(env0, script, 1)
    IN IF env.thrown
       THEN [stdout |-> env.out,
             stderr |-> <<<<Txt("Error: "), Txt(env.msg)>>, <<Txt("    at stack")>>>>,
             exited |-> TRUE, commands |-> env.commands, reads |-> env.reads]
       ELSE IF Serializable(env.commands)
       THEN [stdout |-> env.out \o <<DebugCountLine, <<Marker, JsonArray(env.commands)>>>>,
             stderr |-> <<>>,
             exited |-> FALSE, commands |-> env.commands, reads |-> env.reads]
       ELSE [stdout |-> Append(env.out, DebugCountLine),
             stderr |-> <<<<Txt("Failed to serialize BGE commands: ")>>>>,
             exited |-> FALSE, commands |-> env.commands, reads |-> env.reads]

(***************************************************************************)
(* _extract_commands (script_handler.py lines 574-609).                    *)
(***************************************************************************)
HasMarker(line) == \E i \in 1..Len(line) : line[i] = Marker

FirstIndex(line, tok) == CHOOSE i \in 1..Len(line) : line[i] = tok /\ \A j \in 1..(i - 1) : line[j] # tok

After(line, i) == SubSeq(line, i + 1, Len(line))

\* str.strip(), for the one kind of white space the lines hold.
RECURSIVE Strip(_)
Strip(text) ==
    IF text = <<>> THEN text
    ELSE IF text[1] = Tab THEN Strip(After(text, 1))
    ELSE IF text[Len(text)] = Tab THEN Strip(SubSeq(text, 1, Len(text) - 1))
    ELSE text

\* The text after the marker of a marker line, stripped, and cut after its
\* first tab when it has one.
MarkerRest(line) ==
    LET rest == Strip(After(line, FirstIndex(line, Marker)))
    IN IF \E i \in 1..Len(rest) : rest[i] = Tab THEN After(rest, FirstIndex(rest, Tab)) ELSE rest

\* A decoder without the isinstance test: whatever follows the marker is
\* taken for a list with one element.
JsonLoadsAny(text) ==
    IF Len(text) = 1 /\ text[1].t = "json" THEN text[1].cmds
    ELSE IF text = <<>> THEN <<>> ELSE <<NoCmd>>

\* json.loads, then isinstance(data, list): anything but one JSON array is [].
JsonLoadsList(text) == IF Len(text) = 1 /\ text[1].t = "json" THEN text[1].cmds ELSE <<>>

\* An extraction that decodes the last marker line of the output.
ExtractCommandsLast(output) ==
    IF \E i \in 1..Len(output) : HasMarker(output[i])
    THEN LET last == CHOOSE i \in 1..Len(output) :
                        HasMarker(output[i]) /\ \A j \in (i + 1)..Len(output) : ~HasMarker(output[j])
         IN JsonLoadsList(MarkerRest(output[last]))
    ELSE <<>>

\* The loop of lines 587-598 and the decoding of lines 600-609, on the lines
\* of the output.
ExtractCommands(output) ==
    IF \E i \in 1..Len(output) : HasMarker(output[i])
    THEN LET first == CHOOSE i \in 1..Len(output) :
                         HasMarker(output[i]) /\ \A j \in 1..(i - 1) : ~HasMarker(output[j])
         IN JsonLoadsList(MarkerRest(output[first]))
    ELSE <<>>

(***************************************************************************)
(* The output as text: what JSON.stringify writes and what                 *)
(* str.splitlines() makes of it.                                           *)
(***************************************************************************)
\* A JSON string value, as its code points.
JStr(codes) == [k |-> "str", n |-> 0, a |-> codes]

\* The code points str.splitlines() takes for line boundaries and
\* JSON.stringify writes as themselves inside a string: U+0085, U+2028 and
\* U+2029 (the control characters below U+0020 are written escaped).
LineSeparators == {133, 8232, 8233}

Newline == Tok("nl", "", 0, <<>>)
LineSep == Tok("ls", "", 0, <<>>)

\* The i-th piece of the JSON text of cmds, when line separators cut it.
JsonPart(cmds, i) == Tok("part", "", i, cmds)

SeparatorsIn(v) ==
    IF v.k = "str" THEN Cardinality({i \in 1..Len(v.a) : v.a[i] \in LineSeparators}) ELSE 0

RECURSIVE SeparatorCount(_)
SeparatorCount(cmds) ==
    IF cmds = <<>> THEN 0 ELSE SeparatorsIn(Head(cmds).value) + SeparatorCount(Tail(cmds))

\* JSON.stringify(__bgeCommands): the text of one JSON array; a line
\* separator inside a string value stands in the text as itself.
JsonStringify(cmds) ==
    LET k == SeparatorCount(cmds)
    IN IF k = 0 THEN <<JsonArray(cmds)>>
       ELSE [j \in 1..(2 * k + 1) |-> IF j % 2 = 1 THEN JsonPart(cmds, (j + 1) \div 2) ELSE LineSep]

\* console.log("___BGE_CMDS___" + JSON.stringify(__bgeCommands))
LegacyLine(cmds) == <<Marker>> \o JsonStringify(cmds) \o <<Newline>>

\* console.log('___BGE_CMDS___' + id + '\t' + JSON.stringify(__bgeCommands))
TaggedLine(id, cmds) == <<Marker>> \o Digits(id) \o <<Tab>> \o JsonStringify(cmds) \o <<Newline>>

\* console.log(text)
LogLine(text) == <<Txt(text), Newline>>

\* str.splitlines(): the text cut at every line boundary, the boundaries
\* dropped, and no empty line for a boundary that ends the text.
RECURSIVE SplitLines(_)
SplitLines(text) ==
    IF text = <<>> THEN <<>>
    ELSE LET brk == {i \in 1..Len(text) : text[i] \in {Newline, LineSep}}
         IN IF brk = {} THEN <<text>>
            ELSE LET i == CHOOSE b \in brk : \A c \in brk : b <= c
                 IN <<SubSeq(text, 1, i - 1)>> \o SplitLines(After(text, i))

\* _extract_commands(output) on the text of the output.
ExtractCommandsOfText(output) ==
    IF output = <<>> THEN <<>> ELSE ExtractCommands(SplitLines(output))

(***************************************************************************)
(* The runtime and the two transports.                                     *)
(***************************************************************************)
NoBatch ==
    [done |-> FALSE, commands |-> <<>>, context |-> BuildContext(InitWorld, "Player"),
     faults |-> <<>>, hit |-> RayMiss, trace |-> <<>>, lookup |-> "ok"]

NoRequest == [id |-> <<>>, n |-> 0, script |-> <<>>, context |-> BuildContext(InitWorld, "Player")]
NoProc == [pid |-> 0, alive |-> FALSE, stdin |-> <<>>, stdout |-> <<>>, busy |-> FALSE,
           running |-> NoRequest]
NoCall == [script |-> <<>>, context |-> BuildContext(InitWorld, "Player"), req_id |-> <<>>,
           n |-> 0, pid |-> 0, output_lines |-> <<>>]
NoRun == [script |-> <<>>, context |-> BuildContext(InitWorld, "Player"), how |-> "",
          output |-> <<>>, error_output |-> <<>>, success |-> FALSE]
NoJs == [ran |-> FALSE, n |-> 0, script |-> <<>>, context |-> BuildContext(InitWorld, "Player"),
         commands |-> <<>>, reads |-> <<>>, exited |-> FALSE, stdout |-> <<>>]
NoRet == [returned |-> FALSE, success |-> FALSE, none |-> FALSE, error |-> <<>>, n |-> 0,
          applied |-> <<>>, req_id |-> <<>>, pid |-> 0]

(***************************************************************************)
(* execute_interactive (nodejs.py lines 132-206).  Code is a sequence of   *)
(* characters; the ones the escaping of line 159 knows go by their names:  *)
(* BSLASH, QUOTE, NL (line feed), CR (carriage return), BTICK, DOLLAR.     *)
(***************************************************************************)
ConsoleIds == {"default", "js_console_1"}

\* A context the dictionary does not hold yet holds no code.
NoInteractive == [has |-> FALSE, accumulated_code |-> <<>>]

NoConsole ==
    [inputs |-> [id \in ConsoleIds |-> <<>>], n |-> 0, id |-> "", found |-> FALSE,
     evaluated |-> <<>>, success |-> FALSE]

\* str.replace(ch, repl) on a sequence of characters.
RECURSIVE Replace(_, _, _)
Replace(text, ch, repl) ==
    IF text = <<>> THEN <<>>
    ELSE (IF Head(text) = ch THEN repl ELSE <<Head(text)>>) \o Replace(Tail(text), ch, repl)

\* Line 159: the accumulated code as the body of a JavaScript string literal.
Escape(code) ==
    Replace(Replace(Replace(Replace(Replace(Replace(code,
        "BSLASH", <<"BSLASH", "BSLASH">>), "QUOTE", <<"BSLASH", "QUOTE">>), "NL", <<"BSLASH", "n">>), "CR", <<"BSLASH", "r">>),
        "BTICK", <<"BSLASH", "BTICK">>), "DOLLAR", <<"BSLASH", "DOLLAR">>)

\* The string a JavaScript literal with that body denotes: a backslash and
\* the character after it are one character.
RECURSIVE Literal(_)
Literal(body) ==
    IF body = <<>> THEN <<>>
    ELSE IF Head(body) = "BSLASH" /\ Len(body) >= 2
         THEN <<CASE body[2] = "n" -> "NL" [] body[2] = "r" -> "CR" [] OTHER -> body[2]>>
              \o Literal(SubSeq(body, 3, Len(body)))
    ELSE <<Head(body)>> \o Literal(Tail(body))

\* An accumulation that keeps the last input only.
AccumulateLast(accumulated_code, code) == code

\* Lines 151-155.
Accumulate(accumulated_code, code) ==
    IF accumulated_code # <<>> THEN accumulated_code \o <<"NL">> \o code ELSE code

(***************************************************************************)
(* The text blocks and the Python controllers of the file.  A name is a    *)
(* sequence of characters.                                                 *)
(***************************************************************************)
Controllers == {"c1", "c2"}

\* A file without text blocks.
NoTexts == [name \in {} |-> [wrapper |-> FALSE, script_name |-> <<>>]]

\* No controller was set up, no operator was called.
NoSetup == [script |-> [c \in Controllers |-> <<>>], loads |-> 0, calls |-> 0]

\* NodeJSRuntime.__init__ (lines 100-107), and nothing invoked yet.
\* No _extract_commands call was observed yet.
NoWire == [done |-> FALSE, commands |-> <<>>, kind |-> "", later |-> <<>>, text |-> <<>>,
           status |-> 0, result |-> <<>>]

InitRuntime(w) ==
    /\ use_worker = w
    /\ worker_exec_id = 0
    /\ worker_process = 0
    /\ proc = NoProc
    /\ spawned = 0
    /\ pc = "idle"
    /\ call = NoCall
    /\ run = NoRun
    /\ js = NoJs
    /\ ret = NoRet
    /\ calls = 0
    /\ wire = NoWire
    /\ children = <<>>
    /\ built = NoBuilt
    /\ interactive_context = [id \in ConsoleIds |-> NoInteractive]
    /\ console = NoConsole
    /\ texts = NoTexts
    /\ controller_text = [c \in Controllers |-> <<>>]
    /\ setup = NoSetup

NodeNotFound == <<<<Txt("Error: Node.js not found. Please install Node.js or configure SDK path.")>>>>
TimedOut == <<<<Txt("Error: JavaScript execution timed out.")>>>>
UnknownError == <<<<Txt("Unknown JavaScript execution error")>>>>
WorkerFailedToStart == <<<<Txt("Worker failed to start")>>>>
BrokenPipe == <<<<Txt("[Errno 32] Broken pipe")>>>>

\* execute_with_context without a worker (lines 342-345 and 712-736): the
\* interpreter is missing, the process outlives the timeout and is killed, it
\* dies with a non-zero code before it has written anything, or it runs to
\* its end and its exit code decides.
EphemeralResult(script, context, outcome) ==
    LET p == RunWrapped(script, context)
    IN CASE outcome = "missing" ->
              [output |-> <<>>, error_output |-> NodeNotFound, success |-> FALSE]
         [] outcome = "timeout" ->
              [output |-> <<>>, error_output |-> TimedOut, success |-> FALSE]
         [] outcome = "crashed" ->
              [output |-> <<>>, error_output |-> <<>>, success |-> FALSE]
         [] OTHER ->
              IF p.exited
              THEN [output |-> p.stdout,
                    error_output |-> IF p.stderr # <<>> THEN p.stderr ELSE p.stdout,
                    success |-> FALSE]
              ELSE [output |-> p.stdout, error_output |-> p.stderr, success |-> TRUE]

\* A result that counts as a success only when the output holds a marker
\* line.
ReturnValueStrict(r) ==
    IF r.success /\ \E i \in 1..Len(r.output) : HasMarker(r.output[i])
    THEN [returned |-> TRUE, success |-> TRUE, none |-> TRUE, error |-> <<>>]
    ELSE [returned |-> TRUE, success |-> FALSE, none |-> FALSE,
          error |-> IF r.error_output # <<>> THEN r.error_output ELSE UnknownError]

\* A facade that hands the error text of the channel on as it is, empty or not.
ReturnValueVerbatim(r) ==
    IF r.success
    THEN [returned |-> TRUE, success |-> TRUE, none |-> TRUE, error |-> <<>>]
    ELSE [returned |-> TRUE, success |-> FALSE, none |-> FALSE, error |-> r.error_output]

\* A facade that reports a failure in words of its own, the text of the
\* channel after them.
ReturnValueReworded(r) ==
    IF r.success
    THEN [returned |-> TRUE, success |-> TRUE, none |-> TRUE, error |-> <<>>]
    ELSE [returned |-> TRUE, success |-> FALSE, none |-> FALSE,
          error |-> <<<<Txt("JavaScript execution error: ")>>>> \o r.error_output]

\* execute_controller_script from the return of execute_with_context on
\* (lines 650-670): extract and apply on success, and the value returned.
ReturnValue(r) ==
    IF r.success
    THEN [returned |-> TRUE, success |-> TRUE, none |-> TRUE, error |-> <<>>]
    ELSE [returned |-> TRUE, success |-> FALSE, none |-> FALSE,
          error |-> IF r.error_output # <<>> THEN r.error_output ELSE UnknownError]

\* An execute_controller_script that extracts and applies whatever the result.
AppliesAlways(r) == TRUE

\* Line 652, `if success:`.
Applies(r) == r.success

Finish(r, script, context, how, faultKind, hit, n, req_id, pid) ==
    LET commands == IF Applies(r) THEN ExtractCommands(r.output) ELSE <<>>
        faults == [i \in 1..Len(commands) |-> faultKind]
        trace == ApplyCommands(Host(world, raycast_results, vehicle_constraints, game, gravity), commands, context, faults, hit)
        v == ReturnValue(r)
    IN /\ run' = [script |-> script, context |-> context, how |-> how, output |-> r.output,
                  error_output |-> r.error_output, success |-> r.success]
       /\ IF Applies(r)
          THEN /\ world' = Last(trace).world
               /\ raycast_results' = Last(trace).raycast
               /\ vehicle_constraints' = Last(trace).vehicles
               /\ game' = Last(trace).game
               /\ gravity' = Last(trace).gravity
               /\ batch' = [done |-> TRUE, commands |-> commands, context |-> context,
                            faults |-> faults, hit |-> hit, trace |-> trace, lookup |-> "ok"]
          ELSE UNCHANGED <<hostVars, batch>>
       /\ ret' = [returned |-> v.returned, success |-> v.success, none |-> v.none,
                  error |-> v.error, n |-> n, applied |-> commands, req_id |-> req_id,
                  pid |-> pid]
       /\ pc' = "idle"

\* A subprocess.run that leaves the process to itself when its time is up.
ChildAfterAbandoned(outcome) == IF outcome = "timeout" THEN "running" ELSE "exited"

\* The process subprocess.run started, when the call is over: it has exited
\* by itself, or, its time being up, subprocess.run has killed it and waited
\* for it before raising TimeoutExpired.
ChildAfter(outcome) == IF outcome = "timeout" THEN "killed" ELSE "exited"

\* execute_controller_script(script_text, filename, context) on a runtime
\* without a worker: one process per call, from spawn to exit.
ExecuteEphemeral(script, owner, outcome, faultKind, hit) ==
    LET context == BuildContext(world, owner)
        r == EphemeralResult(script, context, outcome)
        p == RunWrapped(script, context)
    IN /\ pc = "idle" /\ ~use_worker
       /\ calls' = calls + 1
       /\ js' = IF outcome = "ran"
                THEN [ran |-> TRUE, n |-> calls + 1, script |-> script, context |-> context,
                      commands |-> p.commands, reads |-> p.reads, exited |-> p.exited,
                      stdout |-> p.stdout]
                ELSE js
       /\ children' = IF outcome = "missing" THEN children
                       ELSE Append(children, ChildAfter(outcome))
       /\ Finish(r, script, context, outcome, faultKind, hit, calls + 1, <<>>, 0)
       /\ UNCHANGED <<interactive_context, console, built, wire, use_worker, wrapperVars, workerVars, call>>

(***************************************************************************)
(* The persistent worker (nodejs.py lines 108-124 and 271-325).            *)
(***************************************************************************)
\* _ensure_worker: the worker at hand when it still runs, a new process
\* otherwise; None when the process cannot be started.
EnsureWorker(startFails) ==
    IF worker_process # 0 /\ proc.pid = worker_process /\ proc.alive
    THEN [ok |-> TRUE, handle |-> worker_process, proc |-> proc, spawned |-> spawned]
    ELSE IF startFails
    THEN [ok |-> FALSE, handle |-> 0, proc |-> proc, spawned |-> spawned]
    ELSE [ok |-> TRUE, handle |-> spawned + 1,
          proc |-> [NoProc EXCEPT !.pid = spawned + 1, !.alive = TRUE],
          spawned |-> spawned + 1]

\* A counter that starts again with every new worker process.
NextExecIdPerWorker(id) == IF worker_process # 0 /\ proc.pid = worker_process /\ proc.alive THEN id + 1 ELSE 1

\* self._worker_exec_id += 1
NextExecId(id) == id + 1

\* execute_controller_script on a runtime with a worker, up to the point
\* where _worker_execute has its request id (lines 298-301).
Invoke(script, owner, startFails) ==
    LET context == BuildContext(world, owner)
        w == EnsureWorker(startFails)
    IN /\ pc = "idle" /\ use_worker
       /\ calls < MaxCalls
       /\ calls' = calls + 1
       /\ worker_process' = w.handle
       /\ proc' = w.proc
       /\ spawned' = w.spawned
       /\ IF w.ok
          THEN /\ worker_exec_id' = NextExecId(worker_exec_id)
               /\ call' = [script |-> script, context |-> context,
                           req_id |-> Digits(NextExecId(worker_exec_id)), n |-> calls + 1,
                           pid |-> w.handle, output_lines |-> <<>>]
               /\ pc' = "send"
               /\ UNCHANGED <<hostVars, batch, run, ret>>
          ELSE /\ UNCHANGED <<worker_exec_id, call>>
               /\ Finish([output |-> <<>>, error_output |-> WorkerFailedToStart, success |-> FALSE],
                         script, context, "nostart", "ok", RayMiss, calls + 1, <<>>, 0)
       /\ UNCHANGED <<interactive_context, console, built, wire, children, use_worker, wrapperVars, js>>

\* The request is written to the worker's stdin (lines 302-310); a worker
\* that has exited in the meantime breaks the pipe.
Send ==
    /\ pc = "send"
    /\ IF proc.alive
       THEN /\ proc' = [proc EXCEPT !.stdin = Append(@, [id |-> call.req_id, n |-> call.n,
                                                          script |-> call.script,
                                                          context |-> call.context])]
            /\ pc' = "reading"
            /\ UNCHANGED <<worker_process, hostVars, batch, run, ret>>
       ELSE /\ worker_process' = 0
            /\ proc' = proc
            /\ Finish([output |-> <<>>, error_output |-> BrokenPipe, success |-> FALSE],
                      call.script, call.context, "brokenpipe", "ok", RayMiss, call.n,
                      call.req_id, call.pid)
    /\ UNCHANGED <<interactive_context, console, built, wire, children, use_worker, wrapperVars, worker_exec_id, spawned, call, js, calls>>

\* Line 322: `marker in line_out and (marker + req_id) in line_out`.
WorkerAccepts(req_id, line_out) ==
    HasMarker(line_out) /\ Contains(line_out, <<Marker>> \o req_id)

\* One turn of the read loop (lines 314-323) with a line to read: the line
\* is kept, and the loop ends when it is the awaited marker line, or when the
\* deadline has passed while readline was waiting (`late`).
ReadLine(late, faultKind, hit) ==
    /\ pc = "reading"
    /\ proc.stdout # <<>>
    /\ LET line_out == Head(proc.stdout)
           lines == Append(call.output_lines, line_out)
       IN /\ proc' = [proc EXCEPT !.stdout = Tail(@)]
          /\ IF WorkerAccepts(call.req_id, line_out) \/ late
             THEN /\ Finish([output |-> lines, error_output |-> <<>>, success |-> TRUE],
                            call.script, call.context,
                            IF WorkerAccepts(call.req_id, line_out) THEN "accepted" ELSE "deadline",
                            faultKind, hit, call.n, call.req_id, call.pid)
                  /\ call' = [call EXCEPT !.output_lines = lines]
             ELSE /\ call' = [call EXCEPT !.output_lines = lines]
                  /\ UNCHANGED <<hostVars, batch, run, ret, pc>>
    /\ UNCHANGED <<interactive_context, console, built, wire, children, use_worker, wrapperVars, worker_exec_id, worker_process, spawned, js, calls>>

\* readline returns '' (lines 319-320): the worker has exited and its output
\* is read to the end.
ReadEOF(faultKind, hit) ==
    /\ pc = "reading"
    /\ proc.stdout = <<>> /\ ~proc.alive
    /\ Finish([output |-> call.output_lines, error_output |-> <<>>, success |-> TRUE],
              call.script, call.context, "eof", faultKind, hit, call.n, call.req_id, call.pid)
    /\ UNCHANGED <<interactive_context, console, built, wire, children, use_worker, wrapperVars, workerVars, call, js, calls>>

\* The worker's line for a request: marker, echoed id, tab, and the queue as
\* the handler sees it.  The let-bound __bgeCommands of the evaluated code is
\* not in the handler's scope, so the payload is [].
WorkerMarkerLine(id) == <<Marker>> \o id \o <<Tab, JsonArray(<<>>)>>

\* The worker takes the next request line and starts to evaluate its code.
WorkerBegin ==
    /\ proc.alive /\ ~proc.busy /\ proc.stdin # <<>>
    /\ proc' = [proc EXCEPT !.stdin = Tail(@), !.busy = TRUE, !.running = Head(proc.stdin),
                            !.stdout = Append(@, DebugCtxLine)]
    /\ UNCHANGED <<interactive_context, console, built, wire, children, hostVars, batch, use_worker, wrapperVars, worker_exec_id, worker_process, spawned, pc,
                   call, run, js, ret, calls>>

\* The evaluated code runs to its end: either it exits the process (a throw
\* in the user code), or the handler writes its marker line.
WorkerFinish ==
    /\ proc.alive /\ proc.busy
    /\ LET p == RunWrapped(proc.running.script, proc.running.context)
           rest == SubSeq(p.stdout, 2, Len(p.stdout))
       IN /\ proc' = IF p.exited
                     THEN [proc EXCEPT !.alive = FALSE, !.busy = FALSE, !.stdin = <<>>,
                                       !.running = NoRequest, !.stdout = @ \o rest]
                     ELSE [proc EXCEPT !.busy = FALSE, !.running = NoRequest,
                                       !.stdout = @ \o rest \o <<WorkerMarkerLine(proc.running.id)>>]
          /\ js' = [ran |-> TRUE, n |-> proc.running.n, script |-> proc.running.script,
                    context |-> proc.running.context, commands |-> p.commands,
                    reads |-> p.reads, exited |-> p.exited, stdout |-> p.stdout]
    /\ UNCHANGED <<interactive_context, console, built, wire, children, hostVars, batch, use_worker, wrapperVars, worker_exec_id, worker_process, spawned, pc,
                   call, run, ret, calls>>

(***************************************************************************)
(* The command interpreter on its own: one batch applied to a host state.  *)
(***************************************************************************)
SeqsUpTo(S, n) == UNION {[1..k -> S] : k \in 0..n}

V000 == JArr(<<0, 0, 0>>)
V456 == JArr(<<4, 5, 6>>)

\* The commands the interpreter is tried on: a missing target, a short vector,
\* a missing field, and well-formed commands of each family.
ApplyCmds ==
    {CmdSetPosition("Ghost", MainScene, V000),
     CmdSetPosition("Player", MainScene, V456),
     CmdSetPosition("Player", MainScene, JArr(<<7, 8>>)),
     CmdSetPosition("Player", MainScene, JNum(7)),
     CmdSetProperty("Player", MainScene, "hp", JNum(5)),
     CmdSetProperty("Player", MainScene, "", JNum(5)),
     CmdRayCast("Player", MainScene, JArr(<<0, 0, 9>>)),
     CmdApplyMovement("Player", MainScene, JArr(<<1, 0, 0>>))}

InitApply ==
    /\ world \in {InitWorld, [InitWorld EXCEPT !["Player"].props["hp"] = JNum(1)]}
    /\ raycast_results \in
          {[o \in ObjNames |-> NoRay],
           [o \in ObjNames |-> IF o = "Player" THEN RayOf(RayHitEnemy) ELSE NoRay]}
    /\ vehicle_constraints = [o \in ObjNames |-> NoVehicle]
    /\ game = "running"
    /\ gravity = DefaultGravity
    /\ batch = NoBatch
    /\ InitRuntime(FALSE)

\* _apply_commands(commands, context) called on the live scene with a
\* snapshot that may be older than the scene list.
ApplyBatchIn(commands, context, faults, hit, lookup) ==
    LET trace == ApplyCommandsWith(Host(world, raycast_results, vehicle_constraints, game, gravity),
                                   commands, context, faults, hit, lookup)
    IN /\ ~batch.done
       /\ world' = Last(trace).world
       /\ raycast_results' = Last(trace).raycast
       /\ vehicle_constraints' = Last(trace).vehicles
       /\ game' = Last(trace).game
       /\ gravity' = Last(trace).gravity
       /\ batch' = [done |-> TRUE, commands |-> commands, context |-> context,
                    faults |-> faults, hit |-> hit, trace |-> trace, lookup |-> lookup]
       /\ UNCHANGED <<interactive_context, console, built, wire, children, use_worker, wrapperVars, workerVars, pc, call, run, js, ret, calls>>

\* _apply_commands(commands, context) called on the live scene, with the
\* snapshot of the owner as the scene is now and a host that does not raise
\* while the scene is resolved.
ApplyBatch(commands, owner, faults, hit) ==
    LET context == BuildContext(world, owner)
        trace == ApplyCommands(Host(world, raycast_results, vehicle_constraints, game, gravity), commands, context, faults, hit)
    IN /\ ~batch.done
       /\ world' = Last(trace).world
       /\ raycast_results' = Last(trace).raycast
       /\ vehicle_constraints' = Last(trace).vehicles
       /\ game' = Last(trace).game
       /\ gravity' = Last(trace).gravity
       /\ batch' = [done |-> TRUE, commands |-> commands, context |-> context,
                    faults |-> faults, hit |-> hit, trace |-> trace, lookup |-> "ok"]
       /\ UNCHANGED <<interactive_context, console, built, wire, children, use_worker, wrapperVars, workerVars, pc, call, run, js, ret, calls>>

NextApply ==
    /\ ~batch.done
    /\ \E commands \in SeqsUpTo(ApplyCmds, MaxCmds), owner \in Owners, hit \in RayHits :
          \E faults \in [1..Len(commands) -> HostFaults] :
              ApplyBatch(commands, owner, faults, hit)

SpecApply == InitApply /\ [][NextApply]_vars

(***************************************************************************)
(* C1: isolation of a failing command.                                     *)
(***************************************************************************)
TargetName(cmd, context) == IF cmd.object # "" THEN cmd.object ELSE context.object_name

IsGlobalOp(cmd) == cmd.op \in {"endGame", "restartGame", "setGravity"}

\* The target object of command i is not in the scene.
TargetMissing(i) ==
    /\ ~IsGlobalOp(batch.commands[i])
    /\ SceneGetObject(batch.trace[i].world, ResolveScene(batch.context),
                      TargetName(batch.commands[i], batch.context)) = ""

\* A field command i needs is missing or malformed.
BadField(i) ==
    LET cmd == batch.commands[i]
    IN \/ cmd.op = "setPosition" /\ ~IsVec3(cmd.value)
       \/ cmd.op = "setProperty" /\ cmd.property = ""
       \/ cmd.op = "rayCast" /\ ~IsVec3(cmd.to)

\* Every host call command i makes raises.
HostRaised(i) ==
    LET cmd == batch.commands[i]
    IN \/ cmd.op \in {"setPosition", "setProperty", "rayCast", "endGame", "restartGame"}
          /\ batch.faults[i] # "ok"
       \/ cmd.op = "applyMovement" /\ batch.faults[i] = "all"

CommandFailed(i) == TargetMissing(i) \/ BadField(i) \/ HostRaised(i)

\* The ray cast of command i was attempted and the host raised.
RayCastRaised(i) ==
    /\ batch.commands[i].op = "rayCast"
    /\ ~TargetMissing(i) /\ ~BadField(i) /\ HostRaised(i)

EveryCommandProcessed ==
    /\ Len(batch.trace) = Len(batch.commands) + 1
    /\ \A j \in 1..Len(batch.commands) :
          batch.trace[j + 1] =
             ApplyOne(batch.trace[j], batch.commands[j], batch.context,
                      ResolveScene(batch.context), batch.faults[j], batch.hit)

IsolationExample ==
    batch.commands = <<CmdSetPosition("Ghost", MainScene, V000),
                       CmdSetProperty("Player", MainScene, "hp", JNum(5))>>
    /\ batch.faults[2] = "ok"
    => /\ world = [batch.trace[1].world EXCEPT !["Player"].props["hp"] = JNum(5)]
       /\ raycast_results = batch.trace[1].raycast
       /\ game = batch.trace[1].game

ForgedGarbage == <<Marker, Txt("not json")>>
ForgedObject == <<Marker, JsonObject>>

\* The statements scripts are made of: setters, procedures and getters of the
\* owner and of another object, a raw command for a missing object, log lines
\* (two of them bearing the marker), a throw, and a value that cannot be
\* serialized.
EphemeralStmts ==
    {StSetPosition("", V456),
     StGetPosition(""),
     StSetProperty("", "hp", JNum(5)),
     StGetProperty("", "hp"),
     StApplyMovement("", JArr(<<1, 0, 0>>)),
     StSetPosition("Enemy", V456),
     StGetPosition("Enemy"),
     StQueue(CmdSetPosition("Ghost", MainScene, V000)),
     StLog(<<Txt("hello")>>),
     StLog(ForgedGarbage),
     StLog(ForgedObject),
     StSetProperty("", "hp", JBig),
     StThrow("boom")}

ProcessOutcomes == {"missing", "timeout", "ran"}

InitEphemeral ==
    /\ world \in {InitWorld, [InitWorld EXCEPT !["Player"].props["hp"] = JNum(1)]}
    /\ raycast_results = [o \in ObjNames |-> NoRay]
    /\ vehicle_constraints = [o \in ObjNames |-> NoVehicle]
    /\ game = "running"
    /\ gravity = DefaultGravity
    /\ batch = NoBatch
    /\ InitRuntime(FALSE)

NextEphemeral ==
    /\ calls = 0
    /\ \E script \in SeqsUpTo(EphemeralStmts, MaxStmts), owner \in Owners,
          outcome \in ProcessOutcomes, faultKind \in {"ok", "all"}, hit \in {RayMiss} :
           ExecuteEphemeral(script, owner, outcome, faultKind, hit)

SpecEphemeral == InitEphemeral /\ [][NextEphemeral]_vars

Threw(script) == \E i \in 1..Len(script) : script[i].k = "throw"

\* The commands a script has enqueued when it stops (at its end or at its
\* first throw).
RanTo(script) ==
    IF Threw(script)
    THEN (CHOOSE i \in 1..Len(script) : script[i].k = "throw" /\ \A j \in 1..(i - 1) : script[j].k # "throw") - 1
    ELSE Len(script)

Enqueues(st) == st.k \in {"setPosition", "setProperty", "applyMovement", "queue"}

(***************************************************************************)
(* C8: the partial queue of a script that throws.                          *)
(***************************************************************************)
\* C8 as stated: when the user script throws after having enqueued one or
\* more commands, the output of the process still holds the marker line with
\* the commands enqueued before the throw.
C8_PartialQueueEmitted ==
    (js.ran /\ js.exited /\ js.commands # <<>>) =>
        \E i \in 1..Len(js.stdout) : js.stdout[i] = <<Marker, JsonArray(js.commands)>>

(***************************************************************************)
(* C9: a clean exit is a success.                                          *)
(***************************************************************************)
CleanExit == ret.returned /\ run.how = "ran" /\ js.ran /\ ~js.exited

MarkerMissing == \A i \in 1..Len(run.output) : ~HasMarker(run.output[i])

\* C9: whenever the external process exits with code 0,
\* execute_controller_script returns (True, None): also when the output has no
\* marker line, when the payload of its first marker line is no JSON or no
\* array, and when commands of the batch fail to apply.
C9_CleanExitReturnsTrueNone ==
    CleanExit => (ret.success /\ ret.none /\ ret.error = <<>>)

\* A clean exit whose output has no marker line (the queue could not be
\* serialized).
C9_Witness ==
    /\ CleanExit /\ MarkerMissing
    /\ ret.success /\ ret.none

\* A clean exit whose first marker line is a forged one that does not decode,
\* while the script had enqueued commands.
C9_WitnessUndecodable ==
    /\ CleanExit /\ js.commands # <<>> /\ ~MarkerMissing /\ ret.applied = <<>>
    /\ ret.success

\* A clean exit where a command of the batch failed to apply.
C9_WitnessApplyFailed ==
    /\ CleanExit /\ batch.done /\ batch.commands # <<>>
    /\ \E i \in 1..Len(batch.commands) : CommandFailed(i)
    /\ ret.success

(***************************************************************************)
(* C10: no read-after-write inside one invocation.                         *)
(***************************************************************************)
\* What a getter returns on the snapshot the invocation was given.
SnapshotValue(context, r) ==
    IF r.k = "getPosition" THEN GetPosition(context, r.obj)
    ELSE GetProperty(context, r.obj, r.prop)

\* The same, read off the host scene the snapshot was taken from.
HostValueAtSnapshot(context, r) ==
    IF r.k = "getPosition"
    THEN (IF r.obj \in DOMAIN context.object_positions
          THEN context.object_positions[r.obj] ELSE JArr(<<0, 0, 0>>))
    ELSE (IF r.obj = context.object_name /\ context.properties[r.prop].k # "undef"
          THEN context.properties[r.prop] ELSE JNull)

\* C10: within one invocation every getter returns the value of the snapshot,
\* whatever setters and procedures were called before it.
C10_GettersReturnSnapshot ==
    js.ran =>
        \A i \in 1..Len(js.reads) :
            /\ js.reads[i].value = HostValueAtSnapshot(js.context, js.reads[i])
            /\ js.reads[i].value = SnapshotValue(js.context, js.reads[i])

\* A script that set the owner's position and then read it, and got the
\* position of the snapshot.
C10_Witness ==
    /\ js.ran
    /\ js.script = <<StSetPosition("", V456), StGetPosition("")>>
    /\ Len(js.reads) = 1
    /\ js.reads[1].value = js.context.position
    /\ js.reads[1].value # V456

(***************************************************************************)
(* A session of the runtime: invocations one after the other, over the     *)
(* transport the runtime was built with.                                   *)
(***************************************************************************)
V789 == JArr(<<7, 8, 9>>)

\* A log line of a user script that reads like a worker's marker line.
ForgedTagged == <<Marker, Digit(1), Digit(0), Tab, JsonArray(<<>>)>>

SessionStmts ==
    {StSetPosition("", V456),
     StSetPosition("", V789),
     StLog(ForgedTagged),
     StThrow("boom")}

SessionScripts == SeqsUpTo(SessionStmts, MaxStmts)

Init ==
    /\ world = InitWorld
    /\ raycast_results = [o \in ObjNames |-> NoRay]
    /\ vehicle_constraints = [o \in ObjNames |-> NoVehicle]
    /\ game = "running"
    /\ gravity = DefaultGravity
    /\ batch = NoBatch
    /\ \E w \in BOOLEAN : InitRuntime(w)

Next ==
    \/ \E script \in SessionScripts, owner \in Owners, startFails \in BOOLEAN :
          Invoke(script, owner, startFails)
    \/ Send
    \/ \E late \in BOOLEAN, faultKind \in {"ok", "all"} : ReadLine(late, faultKind, RayMiss)
    \/ \E faultKind \in {"ok", "all"} : ReadEOF(faultKind, RayMiss)
    \/ WorkerBegin
    \/ WorkerFinish
    \/ \E script \in SessionScripts, owner \in Owners, outcome \in ProcessOutcomes,
          faultKind \in {"ok", "all"} :
          /\ calls < MaxCalls
          /\ ExecuteEphemeral(script, owner, outcome, faultKind, RayMiss)

Spec == Init /\ [][Next]_vars

\* The commands the wrapped program of a script enqueues, in call order.
Enqueued(script, context) == RunWrapped(script, context).commands

NoLogs(script) == \A i \in 1..Len(script) : script[i].k # "log"

\* The invocation ended with its marker line read: the process ran to its
\* end, or the read loop met the line it waited for.
EndedNormally == ret.returned /\ run.how \in {"ran", "accepted"}

\* The value the last setPosition of the list gives the object, if any.
LastSetPosition(commands, obj, dflt) ==
    LET idx == {i \in 1..Len(commands) : commands[i].op = "setPosition" /\ commands[i].object = obj}
    IN IF idx = {} THEN dflt
       ELSE commands[CHOOSE i \in idx : \A j \in idx : j <= i].value.a

(***************************************************************************)
(* C2: the queue is applied in emission order, once.                       *)
(***************************************************************************)
\* C2: when an invocation that ended normally returns success, the list
\* applied by _apply_commands is the list its script enqueued, in that order
\* and each command once, so that of two setPosition calls on the owner the
\* later one decides the owner's position.
C2_OwnQueueAppliedInOrder ==
    (EndedNormally /\ ret.success /\ NoLogs(run.script)) =>
        /\ ret.applied = Enqueued(run.script, run.context)
        /\ (\A i \in 1..Len(batch.faults) : batch.faults[i] = "ok") =>
              world[run.context.object_name].worldPosition =
                 LastSetPosition(Enqueued(run.script, run.context), run.context.object_name,
                                 run.context.position.a)

(***************************************************************************)
(* C3: the read loop and the request id.                                   *)
(***************************************************************************)
\* The decimal id that follows the marker of a marker line.
LineTag(line) ==
    LET rest == After(line, FirstIndex(line, Marker))
        k == CHOOSE m \in 0..Len(rest) :
                /\ \A i \in 1..m : rest[i].t = "d"
                /\ (m < Len(rest) => rest[m + 1].t # "d")
    IN SubSeq(rest, 1, k)

\* C3: the line that ends the read loop of request k as its response is
\* tagged k; a line tagged with another id (also one that has k's digits as
\* a prefix) is never accepted.
C3_AcceptedLineTaggedWithRequestId ==
    (ret.returned /\ run.how = "accepted") =>
        LineTag(run.output[Len(run.output)]) = ret.req_id

(***************************************************************************)
(* C4: a request's commands are its own.                                   *)
(***************************************************************************)
\* C4: in worker mode the commands applied for an invocation are the ones
\* its own script enqueued, never those of an earlier request.
C4_AppliedCommandsAreOwn ==
    (ret.returned /\ use_worker /\ ret.success /\ ret.applied # <<>>) =>
        ret.applied = Enqueued(run.script, run.context)

(***************************************************************************)
(* C5: a dead or late worker is a failure.                                 *)
(***************************************************************************)
\* C5: in worker mode a call that ends on a broken pipe, on the end of the
\* worker's output, or at the deadline reports success = false.
C5_WorkerFailureReported ==
    (ret.returned /\ run.how \in {"brokenpipe", "eof", "deadline"}) => ~ret.success

(***************************************************************************)
(* C6: respawn on the next call.                                           *)
(***************************************************************************)
\* C6: the call that follows one that ended on a broken pipe, on the end of
\* the worker's output or at the deadline runs on a worker process other than
\* the one that call used, and that process was started by the new call.
C6_NextCallOnFreshWorker ==
    (pc \in {"send", "reading"} /\ ret.returned /\ call.n = ret.n + 1
       /\ run.how \in {"brokenpipe", "eof", "deadline"}) =>
        /\ call.pid # ret.pid
        /\ call.pid = spawned

(***************************************************************************)
(* C7: a throwing script is a failure.                                     *)
(***************************************************************************)
\* C7: when the script of an invocation threw, execute_controller_script
\* returns success = false with an error text that holds the thrown message,
\* over either transport.
C7_ThrowReportsFailure ==
    (ret.returned /\ run.how \in {"ran", "eof"} /\ js.ran /\ js.exited /\ js.n = ret.n) =>
        /\ ~ret.success
        /\ \E i \in 1..Len(ret.error) : \E j \in 1..Len(ret.error[i]) : ret.error[i][j] = Txt("boom")

(***************************************************************************)
(* _extract_commands on its own: the output text of one process is built   *)
(* and decoded.                                                            *)
(***************************************************************************)
NameAB == JStr(<<97, 98>>)
NameWithSeparator == JStr(<<97, 8232, 98>>)

\* The commands lists are encoded from: vectors, a number, and two strings,
\* one of them "a b".
WireCmds ==
    {CmdSetPosition("Player", MainScene, V456),
     CmdSetProperty("Player", MainScene, "hp", JNum(5)),
     CmdSetProperty("Player", MainScene, "name", NameAB),
     CmdSetProperty("Player", MainScene, "name", NameWithSeparator)}

\* What stands in the place of the marker line: nothing, the marker and the
\* JSON array, the marker with id, tab and the JSON array, the marker alone,
\* the marker and text that is no JSON, the marker and a JSON object.
WireKinds == {"none", "legacy", "tagged", "bare", "garbage", "object"}

MarkerLineOf(kind, commands) ==
    CASE kind = "none" -> <<>>
      [] kind = "legacy" -> LegacyLine(commands)
      [] kind = "tagged" -> TaggedLine(7, commands)
      [] kind = "bare" -> <<Marker, Newline>>
      [] kind = "garbage" -> <<Marker, Txt("not json"), Newline>>
      [] kind = "object" -> <<Marker, JsonObject, Newline>>

\* Lines that may follow: none, a log line, or another marker line.
LaterLines ==
    {<<>>, LogLine("bye"), LegacyLine(<<CmdApplyMovement("Enemy", MainScene, JArr(<<1, 0, 0>>))>>)}

InitWire ==
    /\ world = InitWorld
    /\ raycast_results = [o \in ObjNames |-> NoRay]
    /\ vehicle_constraints = [o \in ObjNames |-> NoVehicle]
    /\ game = "running"
    /\ gravity = DefaultGravity
    /\ batch = NoBatch
    /\ InitRuntime(FALSE)

\* _extract_commands(output) for the output of a process that exited with
\* the given status: `logs` log lines, then the marker line, then `later`.
Extract(logs, kind, commands, later, status) ==
    LET text == (IF logs = 0 THEN <<>> ELSE IF logs = 1 THEN LogLine("hello")
                 ELSE LogLine("hello") \o LogLine("world"))
                \o MarkerLineOf(kind, commands) \o later
    IN /\ ~wire.done
       /\ wire' = [done |-> TRUE, commands |-> commands, kind |-> kind, later |-> later,
                   text |-> text, status |-> status, result |-> ExtractCommandsOfText(text)]
       /\ UNCHANGED <<interactive_context, console, built, hostVars, batch, use_worker, wrapperVars, workerVars, pc, call, run, js, ret, calls, children>>

NextWire ==
    /\ ~wire.done
    /\ \E logs \in 0..2, kind \in WireKinds, commands \in SeqsUpTo(WireCmds, MaxCmds),
          later \in LaterLines, status \in {0, 1} :
           Extract(logs, kind, commands, later, status)

SpecWire == InitWire /\ [][NextWire]_vars

(***************************************************************************)
(* C11: what does not decode is the empty list.                            *)
(***************************************************************************)
\* No line of the text bears the marker.
NoMarkerInText == \A i \in 1..Len(wire.text) : wire.text[i] # Marker

\* C11: _extract_commands returns the empty list when the output is empty,
\* when no line of it bears the marker, and when what follows the marker of
\* its first marker line is no JSON text or a JSON text that is no array,
\* whatever the exit status of the process was.
C11_UndecodableIsEmpty ==
    (wire.done /\ (wire.text = <<>> \/ NoMarkerInText \/ wire.kind \in {"bare", "garbage", "object"}))
        => wire.result = <<>>

\* A failed process whose first marker line holds a JSON object, followed by
\* a well-formed marker line.
C11_Witness ==
    /\ wire.done /\ wire.kind = "object" /\ wire.status = 1
    /\ \E i \in 1..Len(wire.later) : wire.later[i] = Marker
    /\ wire.result = <<>>

(***************************************************************************)
(* C12: encoding, then decoding.                                           *)
(***************************************************************************)
\* C12: the list decoded from the output written for a command list L, in
\* either encoding and with log lines before the marker line, is L.
C12_RoundTrip ==
    (wire.done /\ wire.kind \in {"legacy", "tagged"}) => wire.result = wire.commands

(***************************************************************************)
(* C13: the first marker line decides.                                     *)
(***************************************************************************)
\* C13: of several marker lines only the first is decoded, with the id and
\* the tab after the marker removed when they are there; the marker lines
\* after it change nothing.  (The list of the first line is the one encoded
\* when no line separator cuts its text, and the empty list otherwise.)
C13_FirstMarkerLineDecoded ==
    (wire.done /\ wire.kind \in {"legacy", "tagged", "bare", "garbage", "object"}) =>
        wire.result = IF wire.kind \in {"legacy", "tagged"} /\ SeparatorCount(wire.commands) = 0
                      THEN wire.commands ELSE <<>>

\* A tagged first marker line with a list of two commands, a second marker
\* line with another list after it.
C13_Witness ==
    /\ wire.done /\ wire.kind = "tagged" /\ Len(wire.commands) = 2
    /\ \E i \in 1..Len(wire.later) : wire.later[i] = Marker
    /\ wire.result = wire.commands

(***************************************************************************)
(* C14: one marker line, the last.                                         *)
(***************************************************************************)
MarkerLines(output) == {i \in 1..Len(output) : HasMarker(output[i])}

\* C14: the output of an invocation that ended normally and reported success,
\* over either transport, has exactly one line bearing the marker, and that
\* line is its last (the script itself logging no line).
C14_OneMarkerLineAndLast ==
    (EndedNormally /\ ret.success /\ NoLogs(run.script)) =>
        MarkerLines(run.output) = {Len(run.output)}

(***************************************************************************)
(* C15: a position set by the script reaches the host.                     *)
(***************************************************************************)
\* C15: for a snapshot with the owner at [1,2,3] and a script that sets the
\* owner's position to [4,5,6], the list emitted is the one command
\* setPosition(owner, [4,5,6]), and when execute_controller_script has applied
\* it the owner's world position in the host is [4,5,6].
C15_SetPositionReachesHost ==
    (CleanExit /\ js.n = ret.n
       /\ run.context.position = JArr(<<1, 2, 3>>)
       /\ run.script = <<StSetPosition("", V456)>>
       /\ \A i \in 1..Len(batch.faults) : batch.faults[i] = "ok") =>
        /\ js.commands = <<CmdSetPosition(run.context.object_name, run.context.scene_name, V456)>>
        /\ ExtractCommands(run.output) = js.commands
        /\ ret.applied = js.commands
        /\ world[run.context.object_name].worldPosition = <<4, 5, 6>>

C15_Witness ==
    /\ CleanExit /\ js.n = ret.n
    /\ run.context.position = JArr(<<1, 2, 3>>)
    /\ run.script = <<StSetPosition("", V456)>>
    /\ batch.done /\ batch.faults = <<"ok">>
    /\ batch.trace[1].world["Player"].worldPosition = <<1, 2, 3>>
    /\ world["Player"].worldPosition = <<4, 5, 6>>

(***************************************************************************)
(* The wrapped program on its own: one script is run on one snapshot and   *)
(* what it queued and printed is kept.                                     *)
(***************************************************************************)
\* Setters and procedures of the owner, of another object and of the scene,
\* with and without a named argument, two getters and a log line.
EmitStmts ==
    {StSetPosition("", V456),
     StSetProperty("", "hp", JNum(5)),
     StApplyMovement("Enemy", JArr(<<1, 0, 0>>)),
     StLookAt("", "Enemy"),
     StLookAt("", ""),
     StAddObject("Enemy"),
     StAddObject(""),
     StRemoveObject("Enemy"),
     StRemoveObject(""),
     StGetPosition(""),
     StGetProperty("", "hp"),
     StLog(<<Txt("hello")>>)}

InitEmit ==
    /\ world \in {InitWorld, [InitWorld EXCEPT !["Player"].props["hp"] = JNum(1)],
                  [InitWorld EXCEPT !["Player"].worldPosition = <<7, 8, 9>>]}
    /\ raycast_results = [o \in ObjNames |-> NoRay]
    /\ vehicle_constraints = [o \in ObjNames |-> NoVehicle]
    /\ game = "running"
    /\ gravity = DefaultGravity
    /\ batch = NoBatch
    /\ InitRuntime(FALSE)

\* node runs the wrapped code of `script` on the snapshot of `owner`.
Emit(script, owner) ==
    LET context == BuildContext(world, owner)
        p == RunWrapped(script, context)
    IN /\ ~js.ran
       /\ js' = [ran |-> TRUE, n |-> 1, script |-> script, context |-> context,
                 commands |-> p.commands, reads |-> p.reads, exited |-> p.exited,
                 stdout |-> p.stdout]
       /\ UNCHANGED <<interactive_context, console, built, hostVars, batch, use_worker, wrapperVars, workerVars, pc, call, run, ret, calls, wire,
                       children>>

NextEmit ==
    /\ ~js.ran
    /\ \E script \in SeqsUpTo(EmitStmts, MaxStmts), owner \in Owners : Emit(script, owner)

SpecEmit == InitEmit /\ [][NextEmit]_vars

(***************************************************************************)
(* C16: one command per call.                                              *)
(***************************************************************************)
\* The statement is a setter or a procedure that queues a command.
Emitting(st) ==
    \/ st.k \in {"setPosition", "setProperty", "applyMovement"}
    \/ st.k \in {"lookAt", "addObject", "removeObject"} /\ st.arg # ""

\* The op of the command a statement queues, and the object it names.
OpOf(st) ==
    CASE st.k = "addObject" -> "sceneAddObject"
      [] st.k = "removeObject" -> "sceneRemoveObject"
      [] OTHER -> st.k

ObjectOf(st, context) ==
    IF st.k \in {"addObject", "removeObject"} THEN st.arg
    ELSE IF st.obj # "" THEN st.obj ELSE context.object_name

\* C16: the list emitted holds one command for every setter or procedure call
\* of the script, in the order of the calls, and nothing else: getters and
\* log lines add none, and lookAt, addObject and removeObject add none when
\* their argument has no name; the empty script emits the empty list on
\* every snapshot.
C16_OneCommandPerCall ==
    (js.ran /\ ~js.exited) =>
        LET calls_made == SelectSeq(js.script, Emitting)
        IN /\ js.stdout[Len(js.stdout)] = <<Marker, JsonArray(js.commands)>>
           /\ Len(js.commands) = Len(calls_made)
           /\ \A i \in 1..Len(calls_made) :
                 /\ js.commands[i].op = OpOf(calls_made[i])
                 /\ js.commands[i].object = ObjectOf(calls_made[i], js.context)
           /\ (js.script = <<>> => js.commands = <<>>)

\* A lookAt without a named target, then an addObject of a named object.
C16_Witness ==
    /\ js.ran /\ ~js.exited
    /\ js.script = <<StLookAt("", ""), StAddObject("Enemy")>>
    /\ Len(js.commands) = 1
    /\ js.commands[1].op = "sceneAddObject"

(***************************************************************************)
(* A session with three scripts only (the empty one, one setter, one       *)
(* throw) and a host that raises nothing: more calls, fewer states.        *)
(***************************************************************************)
BriefScripts == {<<>>, <<StSetPosition("", V456)>>, <<StThrow("boom")>>}

NextBrief ==
    \/ \E script \in BriefScripts, owner \in Owners, startFails \in BOOLEAN :
          Invoke(script, owner, startFails)
    \/ Send
    \/ \E late \in BOOLEAN : ReadLine(late, "ok", RayMiss)
    \/ ReadEOF("ok", RayMiss)
    \/ WorkerBegin
    \/ WorkerFinish
    \/ \E script \in BriefScripts, owner \in Owners, outcome \in ProcessOutcomes :
          /\ calls < MaxCalls
          /\ ExecuteEphemeral(script, owner, outcome, "ok", RayMiss)

SpecBrief == Init /\ [][NextBrief]_vars

(***************************************************************************)
(* C17: a timed-out process is gone.                                       *)
(***************************************************************************)
\* C17: an ephemeral invocation whose process ran out of time returns
\* success = false with the time-out text, and whenever the host is between
\* invocations none of the processes the invocations started is running.
C17_TimedOutProcessTerminated ==
    /\ (ret.returned /\ run.how = "timeout") =>
          /\ ~ret.success
          /\ ret.error = TimedOut
          /\ children # <<>> /\ children[Len(children)] = "killed"
    /\ (pc = "idle" /\ ~use_worker) =>
          /\ \A i \in 1..Len(children) : children[i] \in {"exited", "killed"}
          /\ Len(children) <= calls

\* Two invocations, the first ran to its end and the second timed out.
C17_Witness ==
    /\ ~use_worker /\ calls = 2 /\ pc = "idle"
    /\ ret.returned /\ run.how = "timeout" /\ ~ret.success
    /\ children = <<"exited", "killed">>

(***************************************************************************)
(* C20: request ids.                                                       *)
(***************************************************************************)
\* C20: the counter behind the request ids never goes down, and every call
\* that gets a request id gets the counter's next value: the ids of the
\* requests are strictly increasing, also when the worker was started anew
\* or the request before could not be sent.
C20_RequestIdsIncrease ==
    [][/\ worker_exec_id' >= worker_exec_id
       /\ (pc = "idle" /\ pc' = "send") =>
             /\ worker_exec_id' > worker_exec_id
             /\ call'.req_id = Digits(worker_exec_id')
             /\ call'.req_id # call.req_id
             /\ call'.req_id # ret.req_id]_vars

\* A second request, on a second worker, after the first worker exited.
C20_Witness ==
    /\ pc = "send" /\ call.n = 2 /\ call.pid = 2
    /\ ret.returned /\ ret.n = 1 /\ run.how = "eof"
    /\ ret.req_id = Digits(1) /\ call.req_id = Digits(2)

\* A request that could not be sent has used up its id.
C20_WitnessFailedSend ==
    /\ ret.returned /\ run.how = "brokenpipe" /\ ret.req_id = Digits(2) /\ worker_exec_id = 2

(***************************************************************************)
(* The same session with the scheduling the code can count on: the host    *)
(* thread takes the step it is at, and the worker process takes a request  *)
(* up; nothing makes the script of a request come to its end.              *)
(***************************************************************************)
SpecLive ==
    /\ Init /\ [][NextBrief]_vars
    /\ WF_vars(Send)
    /\ WF_vars(\E late \in BOOLEAN : ReadLine(late, "ok", RayMiss))
    /\ WF_vars(ReadEOF("ok", RayMiss))
    /\ WF_vars(WorkerBegin)

(***************************************************************************)
(* C18: every invocation returns.                                          *)
(***************************************************************************)
\* C18: an invocation that has begun returns to its caller, over either
\* transport; in worker mode also when the worker stays alive and writes
\* nothing more, its script never coming to an end.
C18_EveryInvocationReturns == (pc # "idle") ~> (pc = "idle")

(***************************************************************************)
(* C19: one request at a time.                                             *)
(***************************************************************************)
\* The requests the worker has been sent and has not finished with: the one
\* it runs and the ones waiting on its stdin.
Outstanding == Len(proc.stdin) + (IF proc.busy THEN 1 ELSE 0)

\* C19: a worker never has more than one request it has not finished with,
\* also after a call that returned at its deadline.
C19_SingleFlight == proc.alive => Outstanding <= 1

(***************************************************************************)
(* The interpreter on a game with two scenes: Player and Enemy in Main,    *)
(* Sign in HUD.                                                            *)
(***************************************************************************)
TwoSceneWorld ==
    [o \in ObjNames \cup {"Sign"} |->
        IF o = "Sign"
        THEN [scene |-> HudScene, worldPosition |-> <<9, 9, 9>>, worldOrientation |-> 0,
              replicas |-> <<>>,
              props |-> [p \in PropNames |-> Undef]]
        ELSE InitWorld[o]]

\* Commands that name their scene, the other scene, or none, and their
\* object or none.
SceneCmds ==
    {CmdSetPosition("Player", MainScene, V456),
     CmdSetPosition("Sign", HudScene, V456),
     CmdSetPosition("Sign", "", V456),
     CmdSetPosition("", "", V456),
     CmdSetPosition("", HudScene, V000),
     CmdSetPosition("Enemy", "", V000)}

InitScenes ==
    /\ world = TwoSceneWorld
    /\ raycast_results = [o \in ObjNames \cup {"Sign"} |-> NoRay]
    /\ vehicle_constraints = [o \in ObjNames \cup {"Sign"} |-> NoVehicle]
    /\ game = "running"
    /\ gravity = DefaultGravity
    /\ batch = NoBatch
    /\ InitRuntime(FALSE)

NextScenes ==
    /\ ~batch.done
    /\ \E commands \in SeqsUpTo(SceneCmds, MaxCmds), owner \in {"Player", "Sign"} :
          \E faults \in [1..Len(commands) -> {"ok", "all"}] :
              ApplyBatch(commands, owner, faults, RayMiss)

SpecScenes == InitScenes /\ [][NextScenes]_vars

(***************************************************************************)
(* C21: the scene and the object a command acts on.                        *)
(***************************************************************************)
\* The scene command i names, or the current scene when it names none, and
\* the object it names looked up in that scene, or the owner.
NamedScene(i) ==
    IF batch.commands[i].scene # "" THEN batch.commands[i].scene ELSE ResolveScene(batch.context)

NamedObject(i) ==
    SceneGetObject(batch.trace[i].world, NamedScene(i), TargetName(batch.commands[i], batch.context))

\* C21: every setPosition command of the batch moves the object it names (or
\* the owner, when it names none) of the scene it names (or of the current
\* scene, when it names none), also when that scene is not the scene of the
\* snapshot.
C21_CommandActsInNamedScene ==
    batch.done =>
        \A i \in 1..Len(batch.commands) :
            (/\ i < Len(batch.trace)
             /\ batch.commands[i].op = "setPosition"
             /\ IsVec3(batch.commands[i].value)
             /\ batch.faults[i] = "ok"
             /\ NamedObject(i) # "") =>
                batch.trace[i + 1].world[NamedObject(i)].worldPosition = batch.commands[i].value.a

(***************************************************************************)
(* The interpreter on ray casts.                                           *)
(***************************************************************************)
RayCmds ==
    {CmdRayCast("Player", MainScene, JArr(<<0, 0, 9>>)),
     CmdRayCast("", "", JArr(<<0, 0, 9>>)),
     CmdRayCast("Player", MainScene, JArr(<<7, 8>>)),
     CmdRayCast("Ghost", MainScene, JArr(<<0, 0, 9>>)),
     CmdRayCastTo("Player", MainScene, "Enemy"),
     CmdRayCastTo("Enemy", MainScene, "Ghost"),
     CmdRayCastTo("Player", MainScene, "")}

NextRay ==
    /\ ~batch.done
    /\ \E commands \in SeqsUpTo(RayCmds, MaxCmds), owner \in Owners, hit \in RayHits :
          \E faults \in [1..Len(commands) -> {"ok", "all"}] :
              ApplyBatch(commands, owner, faults, hit)

SpecRay == InitApply /\ [][NextRay]_vars

(***************************************************************************)
(* C22: what a ray cast leaves in the results table.                       *)
(***************************************************************************)
IsRayOp(cmd) == cmd.op \in {"rayCast", "rayCastTo"}

\* What the host gave for the cast of command i: the hit of the batch, or
\* nothing when the target of a rayCastTo is not in the scene (the host is
\* not asked).
CastResult(i) ==
    IF batch.commands[i].op = "rayCastTo"
       /\ SceneGetObject(batch.trace[i].world, ResolveScene(batch.context),
                         batch.commands[i].target) = ""
    THEN RayMiss ELSE batch.hit

Caster(i) == TargetName(batch.commands[i], batch.context)

(***************************************************************************)
SnapshotStmts ==
    {StQueue(CmdRayCast("", "", JArr(<<0, 0, 9>>))),
     StQueue(CmdRayCastTo("", "", "Enemy")),
     StSetPosition("", V456)}

InitSnapshot ==
    /\ world = InitWorld
    /\ raycast_results = [o \in ObjNames |-> NoRay]
    /\ vehicle_constraints = [o \in ObjNames |-> NoVehicle]
    /\ game = "running"
    /\ gravity = DefaultGravity
    /\ batch = NoBatch
    /\ InitRuntime(FALSE)

NextSnapshot ==
    /\ calls < MaxCalls
    /\ \E script \in SeqsUpTo(SnapshotStmts, MaxStmts), owner \in Owners, hit \in RayHits :
          ExecuteEphemeral(script, owner, "ran", "ok", hit)

SpecSnapshot == InitSnapshot /\ [][NextSnapshot]_vars

(***************************************************************************)
(* C23: the results of the ray casts in the next snapshot.                 *)
(***************************************************************************)
\* The snapshot shows the ray-cast entry of object o: one of its fields is
\* the table of results, and holds that entry.
ShowsRay(ctx, o, entry) ==
    /\ "raycast_results" \in DOMAIN ctx
    /\ ctx["raycast_results"][o] = entry

\* C23: a ray-cast result stored while the commands of invocation N are
\* interpreted is not in the snapshot of invocation N, and is in the snapshot
\* built for invocation N+1: every step that starts an invocation builds a
\* snapshot showing each entry the table holds at that moment, and none of
\* the entries the invocation's own commands write.
C23_ResultInNextSnapshot ==
    [][(calls' = calls + 1) =>
          \A o \in ObjNames :
             /\ raycast_results[o].has => ShowsRay(run'.context, o, raycast_results[o])
             /\ (raycast_results'[o] # raycast_results[o]) =>
                   ~ShowsRay(run'.context, o, raycast_results'[o])]_vars

\* The first half alone: no snapshot shows what its own invocation stored.
C23_OwnSnapshotBlind ==
    [][(calls' = calls + 1) =>
          \A o \in ObjNames :
             (raycast_results'[o] # raycast_results[o]) =>
                ~ShowsRay(run'.context, o, raycast_results'[o])]_vars

\* A second invocation starts while the table holds a hit of the first.
C23_Witness ==
    /\ calls = 2
    /\ ret.returned
    /\ \E o \in ObjNames : raycast_results[o].has /\ raycast_results[o].object = "Enemy"

(***************************************************************************)
(* Invocations whose scripts drive a vehicle.                              *)
(***************************************************************************)
VehicleScripts ==
    {<<StQueue(CmdCreateVehicle("", ""))>>,
     <<StQueue(CmdCreateVehicle("", "")), StQueue(CmdCreateVehicle("", ""))>>,
     <<StQueue(CmdCreateVehicle("", "")), StQueue(CmdVehicleAddWheel("", "", "Enemy"))>>,
     <<StQueue(CmdCreateVehicle("", "")), StQueue(CmdVehicleApplyEngineForce("", "", JNum(5)))>>,
     <<StQueue(CmdCreateVehicle("Enemy", ""))>>,
     <<StQueue(CmdVehicleAddWheel("", "", "Enemy"))>>,
     <<StQueue(CmdVehicleAddWheel("", "", "Ghost"))>>,
     <<StQueue(CmdVehicleApplyEngineForce("", "", JNum(5)))>>,
     <<StQueue(CmdVehicleApplyEngineForce("", "", JArr(<<5>>)))>>,
     <<StQueue(CmdVehicleSetSteeringValue("", "", JNum(1)))>>,
     <<StQueue(CmdVehicleApplyBraking("", "", JNum(2)))>>}

NextVehicle ==
    /\ calls < MaxCalls
    /\ \E script \in VehicleScripts, owner \in Owners, faultKind \in {"ok", "all"} :
          ExecuteEphemeral(script, owner, "ran", faultKind, RayMiss)

SpecVehicle == InitSnapshot /\ [][NextVehicle]_vars

(***************************************************************************)
(* C24: createVehicle creates or reuses.                                   *)
(***************************************************************************)
\* The constraint of the chassis after vehicle command cmd acted on it.
Driven(vehicle, cmd) ==
    CASE cmd.op = "vehicleApplyEngineForce" -> [vehicle EXCEPT !.engineForce = cmd.force.n]
      [] cmd.op = "vehicleSetSteeringValue" -> [vehicle EXCEPT !.steering = cmd.value.n]
      [] cmd.op = "vehicleApplyBraking" -> [vehicle EXCEPT !.braking = cmd.force.n]
      [] cmd.op = "vehicleAddWheel" -> [vehicle EXCEPT !.wheels = Append(@, cmd.wheel)]

\* Command i is a vehicle command the host can carry out.
Drivable(i) ==
    LET cmd == batch.commands[i]
    IN /\ cmd.op \in VehicleOps
       /\ ~TargetMissing(i)
       /\ batch.faults[i] = "ok"
       /\ cmd.op = "vehicleAddWheel" => cmd.wheel \in ObjNames
       /\ cmd.op = "vehicleSetSteeringValue" => cmd.value.k = "num"
       /\ cmd.op \in {"vehicleApplyEngineForce", "vehicleApplyBraking"} => cmd.force.k = "num"

\* C24: a createVehicle for an object that has a handle in the constraint
\* table creates nothing and leaves the table (and the rest of the host) as
\* it was; a handle, once in the table, stays the same constraint, in the
\* invocation that created it and in the later ones, whose vehicle commands
\* (add wheel, engine force, steering, braking) act on it.
C24_CreateOrReuse ==
    batch.done =>
        /\ Len(batch.trace) = Len(batch.commands) + 1
        /\ ret.n = 1 => batch.trace[1].vehicles = [o \in ObjNames |-> NoVehicle]
        /\ Last(batch.trace).vehicles = vehicle_constraints
        /\ \A i \in 1..Len(batch.commands) :
              LET cmd == batch.commands[i]
                  before == batch.trace[i]
                  after == batch.trace[i + 1]
              IN /\ \A o \in ObjNames :
                       before.vehicles[o].has =>
                          /\ after.vehicles[o].has
                          /\ after.vehicles[o].id = before.vehicles[o].id
                 /\ (cmd.op = "createVehicle" /\ ~TargetMissing(i)
                       /\ before.vehicles[Caster(i)].has) => after = before
                 /\ (Drivable(i) /\ before.vehicles[Caster(i)].has) =>
                       after = [before EXCEPT !.vehicles[Caster(i)] = Driven(@, cmd)]

\* The second invocation asks for a vehicle again and sets the engine force:
\* the constraint of the first invocation, with the wheel it was given there,
\* takes the force.
C24_Witness ==
    /\ batch.done /\ ret.n = 2
    /\ batch.commands = <<CmdCreateVehicle("", ""), CmdVehicleApplyEngineForce("", "", JNum(5))>>
    /\ batch.trace[1].vehicles["Player"] =
          [NoVehicle EXCEPT !.has = TRUE, !.id = 1, !.wheels = <<"Enemy">>]
    /\ vehicle_constraints["Player"] =
          [NoVehicle EXCEPT !.has = TRUE, !.id = 1, !.wheels = <<"Enemy">>, !.engineForce = 5]

(***************************************************************************)
(* The interpreter on commands whose op it does not know.                  *)
(***************************************************************************)
CmdUnknown(op, o, v) == [NoCmd EXCEPT !.op = op, !.object = o, !.value = v, !.vec = v]

UnknownCmds ==
    {CmdUnknown("teleport", "", V456),
     CmdUnknown("", "Enemy", V456),
     CmdUnknown("explode", "Ghost", JNull),
     CmdSetPosition("Player", MainScene, V456),
     CmdCreateVehicle("Player", MainScene),
     CmdRayCast("Player", MainScene, JArr(<<0, 0, 9>>))}

NextUnknown ==
    /\ ~batch.done
    /\ \E commands \in SeqsUpTo(UnknownCmds, MaxCmds), owner \in Owners, hit \in RayHits :
          \E faults \in [1..Len(commands) -> {"ok", "all"}] :
              ApplyBatch(commands, owner, faults, hit)

SpecUnknown == InitApply /\ [][NextUnknown]_vars

(***************************************************************************)
(* C25: an op the interpreter does not know.                               *)
(***************************************************************************)
\* C25: a command whose op is none of the known operations is ignored: the
\* loop does not raise (every command of the batch is gone through), the
\* command leaves the host state, the ray-cast table and the constraint table
\* as they were, and a command after it is applied (a well-formed setPosition
\* moves its object).
C25_UnknownOpIgnored ==
    batch.done =>
        /\ Len(batch.trace) = Len(batch.commands) + 1
        /\ \A i \in 1..Len(batch.commands) :
              batch.commands[i].op \notin KnownOps =>
                 /\ batch.trace[i + 1] = batch.trace[i]
                 /\ \A j \in (i + 1)..Len(batch.commands) :
                       (batch.commands[j].op = "setPosition" /\ ~TargetMissing(j)
                          /\ ~BadField(j) /\ batch.faults[j] = "ok") =>
                          batch.trace[j + 1].world[TargetName(batch.commands[j], batch.context)]
                             .worldPosition = batch.commands[j].value.a

\* An unknown op ahead of a setPosition, the ray-cast table holding a hit of
\* an earlier step: the table keeps its entry and the object is moved.
C25_Witness ==
    /\ batch.done
    /\ batch.commands = <<CmdUnknown("teleport", "", V456), CmdSetPosition("Player", MainScene, V456)>>
    /\ batch.faults = <<"ok", "ok">>
    /\ batch.trace[1].raycast["Player"].has
    /\ raycast_results = batch.trace[1].raycast
    /\ world["Player"].worldPosition = <<4, 5, 6>>

(***************************************************************************)
(* _build_context on hosts that lack something or raise at one read.       *)
(***************************************************************************)
\* At most one read raises.
FailureSets == {{}} \cup {{f} : f \in BuildSteps}

BuildContextCall(bge, controller, owner, fails) ==
    /\ ~built.done
    /\ built' = [done |-> TRUE, bge |-> bge, controller |-> controller, owner |-> owner,
                 fails |-> fails, raised |-> FALSE,
                 ctx |-> BuildContextKeys(bge, controller, owner, fails)]
    /\ UNCHANGED <<interactive_context, console, hostVars, batch, use_worker, wrapperVars, workerVars, pc,
                   call, run, js, ret, calls, wire, children>>

NextBuild ==
    /\ ~built.done
    /\ \E bge \in BOOLEAN, controller \in BOOLEAN, owner \in BOOLEAN, fails \in FailureSets :
          BuildContextCall(bge, controller, owner, fails)

SpecBuild == InitSnapshot /\ [][NextBuild]_vars

(***************************************************************************)
(* C26: the snapshot builder cannot fail, and loses one field at a time.   *)
(***************************************************************************)
\* C26: _build_context never raises and returns a snapshot with every key;
\* when one step fails (no engine, no controller, no owner, a read that
\* raises) the keys of the other steps still hold what the host has for them.
C26_OneFailureOneField ==
    built.done =>
        /\ ~built.raised
        /\ DOMAIN built.ctx = ContextKeys
        /\ \A k \in ContextKeys \ built.fails :
              built.ctx[k] = BuildContextGuarded(built.bge, built.controller, built.owner,
                                                 built.fails)[k]

\* What holds of it: no raise, every key, and a key is populated only from a
\* host that has it.
C26_EveryKeyPresent ==
    built.done =>
        /\ ~built.raised
        /\ DOMAIN built.ctx = ContextKeys
        /\ \A k \in ContextKeys :
              built.ctx[k] = "host" =>
                 BuildContextGuarded(built.bge, built.controller, built.owner, {})[k] = "host"

\* owner.name raises: the owner's position is not read, nor the scene list.
C26_Witness ==
    /\ built.done /\ built.bge /\ built.controller /\ built.owner
    /\ built.fails = {"object_name"}
    /\ built.ctx["controller_name"] = "host"
    /\ built.ctx["position"] = "default"
    /\ built.ctx["scenes"] = "default"

(***************************************************************************)
(* Invocations on owners with custom properties of every kind.             *)
(***************************************************************************)
PropertyValues == {Undef, JNum(1), JObj}

PropertyStmts ==
    {StGetProperty("", "hp"),
     StGetPosition(""),
     StSetPosition("", V456),
     StSetProperty("", "hp", JNum(5))}

InitProperties ==
    /\ world \in {[InitWorld EXCEPT !["Player"].props["hp"] = v] : v \in PropertyValues}
    /\ raycast_results = [o \in ObjNames |-> NoRay]
    /\ vehicle_constraints = [o \in ObjNames |-> NoVehicle]
    /\ game = "running"
    /\ gravity = DefaultGravity
    /\ batch = NoBatch
    /\ InitRuntime(FALSE)

NextProperties ==
    /\ calls = 0
    /\ \E script \in SeqsUpTo(PropertyStmts, MaxStmts), owner \in Owners,
          faultKind \in {"ok", "all"} :
          ExecuteEphemeral(script, owner, "ran", faultKind, RayMiss)

SpecProperties == InitProperties /\ [][NextProperties]_vars

(***************************************************************************)
(* C27: the snapshot the script is given.                                  *)
(***************************************************************************)
\* C27: every value of the snapshot's custom-property map is JSON-safe, so
\* that the serialization of the snapshot succeeds and the script is given
\* the snapshot that was built, never an empty one: what its owner handle
\* names is the owner, and what it reads of the owner's properties is what
\* the snapshot holds.
C27_ScriptSeesBuiltSnapshot ==
    js.ran =>
        /\ \A p \in DOMAIN js.context.properties : js.context.properties[p].k # "obj"
        /\ ContextJson(js.context) = js.context
        /\ \A i \in 1..Len(js.reads) :
              /\ js.reads[i].obj = js.context.object_name
              /\ js.reads[i].k = "getProperty" =>
                    js.reads[i].value = GetProperty(js.context, js.context.object_name,
                                                    js.reads[i].prop)

\* The owner holds a value JSON has no encoding for (and the script read hp).
C27_Witness ==
    /\ js.ran
    /\ js.context.properties["hp"] = JObj
    /\ js.script = <<StGetProperty("", "hp")>>

(***************************************************************************)
(* Sessions in which an attempt can also fail without a word: the process  *)
(* ends with a non-zero code and has written nothing.                      *)
(***************************************************************************)
AttemptOutcomes == ProcessOutcomes \cup {"crashed"}

NextAttempt ==
    \/ \E script \in BriefScripts, owner \in Owners, startFails \in BOOLEAN :
          Invoke(script, owner, startFails)
    \/ Send
    \/ \E late \in BOOLEAN : ReadLine(late, "ok", RayMiss)
    \/ ReadEOF("ok", RayMiss)
    \/ WorkerBegin
    \/ WorkerFinish
    \/ \E script \in BriefScripts, owner \in Owners, outcome \in AttemptOutcomes :
          /\ calls < MaxCalls
          /\ ExecuteEphemeral(script, owner, outcome, "ok", RayMiss)

SpecAttempt == Init /\ [][NextAttempt]_vars

(***************************************************************************)
(* C28: one attempt per call, and the failure as the channel worded it.    *)
(***************************************************************************)
\* C28 as stated: execute_controller_script makes at most one attempt per
\* call and, when the attempt fails, returns the error text of the channel
\* unchanged.
C28_FailureReportedVerbatim ==
    /\ Len(children) <= calls /\ worker_exec_id <= calls /\ spawned <= calls
    /\ (ret.returned /\ ~ret.success) => ret.error = run.error_output

\* C28 as it holds: at most one process per call in ephemeral mode, at most
\* one worker started and one request sent per call in worker mode; a failed
\* attempt returns the error text of the channel unchanged when there is one,
\* and the text "Unknown JavaScript execution error" when the channel's is
\* empty.
C28_OneAttemptErrorOrDefault ==
    /\ Len(children) <= calls /\ worker_exec_id <= calls /\ spawned <= calls
    /\ ~use_worker => (spawned = 0 /\ worker_exec_id = 0)
    /\ use_worker => children = <<>>
    /\ (ret.returned /\ ~ret.success) =>
          /\ ~run.success
          /\ ret.error = IF run.error_output # <<>> THEN run.error_output ELSE UnknownError
    /\ (ret.returned /\ ret.success) => (run.success /\ ret.none)

\* A second call whose process died without a word, after a first one that
\* timed out: two processes in all, and the default text returned.
C28_Witness ==
    /\ calls = 2 /\ Len(children) = 2 /\ children[1] = "killed"
    /\ ret.returned /\ ~ret.success /\ ret.n = 2
    /\ run.how = "crashed" /\ run.error_output = <<>>
    /\ ret.error = UnknownError

(***************************************************************************)
(* The console: execute_interactive called again and again.                *)
(***************************************************************************)
ConsoleInputs == {<<>>, <<"a">>, <<"QUOTE", "b", "QUOTE">>, <<"BSLASH", "n">>}

\* How the evaluation of a call that has the path of the interpreter ends:
\* exit code 0, a script error (exit code 1), the timeout, or the file of the
\* interpreter gone (FileNotFoundError).
ConsoleOutcomes == {"ok", "error", "timeout", "gone"}

\* An execute_interactive that takes a failed input out of the context again.
ExecuteInteractiveForgetting(code, context_id, found, outcome) ==
    LET acc == Accumulate(interactive_context[context_id].accumulated_code, code)
    IN /\ console.n < MaxCalls
       /\ interactive_context' =
             IF found /\ outcome = "ok"
             THEN [interactive_context EXCEPT ![context_id] = [has |-> TRUE, accumulated_code |-> acc]]
             ELSE IF found
             THEN [interactive_context EXCEPT ![context_id].has = TRUE]
             ELSE interactive_context
       /\ console' = [inputs |-> [console.inputs EXCEPT
                                     ![context_id] = Append(@, [code |-> code, found |-> found,
                                                                outcome |-> outcome])],
                      n |-> console.n + 1, id |-> context_id, found |-> found,
                      evaluated |-> IF found THEN Literal(Escape(acc)) ELSE <<>>,
                      success |-> found /\ outcome = "ok"]
       /\ UNCHANGED <<built, hostVars, batch, use_worker, wrapperVars, workerVars, pc, call, run, js, ret,
                      calls, wire, children>>

\* execute_interactive(code, context_id): nothing happens without the path
\* of an interpreter (lines 138-140); otherwise the code joins what the
\* context has accumulated and the whole is evaluated, whatever becomes of it.
ExecuteInteractive(code, context_id, found, outcome) ==
    LET acc == Accumulate(interactive_context[context_id].accumulated_code, code)
    IN /\ console.n < MaxCalls
       /\ interactive_context' =
             IF found
             THEN [interactive_context EXCEPT ![context_id] = [has |-> TRUE, accumulated_code |-> acc]]
             ELSE interactive_context
       /\ console' = [inputs |-> [console.inputs EXCEPT
                                     ![context_id] = Append(@, [code |-> code, found |-> found,
                                                                outcome |-> outcome])],
                      n |-> console.n + 1, id |-> context_id, found |-> found,
                      evaluated |-> IF found THEN Literal(Escape(acc)) ELSE <<>>,
                      success |-> found /\ outcome = "ok"]
       /\ UNCHANGED <<built, hostVars, batch, use_worker, wrapperVars, workerVars, pc, call, run, js, ret,
                      calls, wire, children>>

\* NodeJSRuntime.get_node_path (lines 126-130): a path once found is kept.
NodePathKnown == \E id \in ConsoleIds : \E i \in 1..Len(console.inputs[id]) : console.inputs[id][i].found

NextConsole ==
    /\ console.n < MaxCalls
    /\ \E code \in ConsoleInputs, context_id \in ConsoleIds, outcome \in ConsoleOutcomes,
          found \in (IF NodePathKnown THEN {TRUE} ELSE BOOLEAN) :
          ExecuteInteractive(code, context_id, found, outcome)

SpecConsole == InitSnapshot /\ [][NextConsole]_vars

(***************************************************************************)
(* C29: what the console has evaluated.                                    *)
(***************************************************************************)
\* The texts joined by line feeds.
RECURSIVE JoinLines(_)
JoinLines(parts) ==
    IF parts = <<>> THEN <<>>
    ELSE IF Len(parts) = 1 THEN parts[1]
    ELSE parts[1] \o <<"NL">> \o JoinLines(Tail(parts))

Codes(inputs) == [i \in 1..Len(inputs) |-> inputs[i].code]

\* The inputs of the calls that found an interpreter.
RECURSIVE Found(_)
Found(inputs) ==
    IF inputs = <<>> THEN <<>>
    ELSE (IF Head(inputs).found THEN <<Head(inputs)>> ELSE <<>>) \o Found(Tail(inputs))

\* The texts from the first one that is not empty on.
RECURSIVE FromFirstText(_)
FromFirstText(parts) ==
    IF parts = <<>> THEN <<>>
    ELSE IF Head(parts) = <<>> THEN FromFirstText(Tail(parts))
    ELSE parts

\* C29 as stated: the code evaluated at the n-th call on a context is the
\* newline-joined concatenation of all n inputs submitted to that context, in
\* order, and no input of one context is in the code of another.
C29_AllInputsJoined ==
    /\ (console.n > 0 /\ console.found) =>
          console.evaluated = JoinLines(Codes(console.inputs[console.id]))
    /\ \A id \in ConsoleIds :
          console.inputs[id] = <<>> => interactive_context[id] = NoInteractive

\* C29 as it holds: the code evaluated at a call that found the interpreter
\* is the newline-joined concatenation, in order, of the inputs of the calls
\* on that context that found the interpreter, the empty inputs ahead of the
\* first non-empty one left out; it is what the context holds; a call that
\* found no interpreter leaves every context as it was; and the context of
\* one console holds nothing of the inputs of another.
C29_AcceptedInputsJoined ==
    /\ \A id \in ConsoleIds :
          /\ interactive_context[id].accumulated_code =
                JoinLines(FromFirstText(Codes(Found(console.inputs[id]))))
          /\ interactive_context[id].has = (Found(console.inputs[id]) # <<>>)
    /\ (console.n > 0 /\ console.found) =>
          console.evaluated = interactive_context[console.id].accumulated_code

\* Two inputs on one console, with a quote and a backslash in them, after
\* which the other console has still nothing.
C29_Witness ==
    /\ console.n = 2 /\ console.found /\ console.id = "default"
    /\ Codes(console.inputs["default"]) = <<<<"QUOTE", "b", "QUOTE">>, <<"BSLASH", "n">>>>
    /\ console.evaluated = <<"QUOTE", "b", "QUOTE", "NL", "BSLASH", "n">>
    /\ interactive_context["js_console_1"] = NoInteractive

(***************************************************************************)
(* C30: the worker's answer to a request.                                  *)
(***************************************************************************)
\* The lines the worker wrote in the step.
Written == SubSeq(proc'.stdout, Len(proc.stdout) + 1, Len(proc'.stdout))

\* C30: for every request {id, code} the worker has read, it writes exactly
\* one line bearing the marker and the id of the request, after the log lines
\* of the request, also when the code of the request throws: the step that
\* ends a request leaves the worker alive, and of the lines it writes the
\* last one, and no other, is the marker line with the id of the request.
C30_OneTaggedLinePerRequest ==
    [][(proc.busy /\ ~proc'.busy) =>
          /\ proc'.alive
          /\ Written # <<>>
          /\ Written[Len(Written)] = WorkerMarkerLine(proc.running.id)
          /\ \A i \in 1..(Len(Written) - 1) : Written[i] # WorkerMarkerLine(proc.running.id)]_vars

\* The same for the requests whose code runs to its end, where it holds.
C30_TaggedLineWhenCodeReturns ==
    [][(proc.busy /\ ~proc'.busy /\ ~js'.exited) =>
          /\ proc'.alive
          /\ Written # <<>>
          /\ Written[Len(Written)] = WorkerMarkerLine(proc.running.id)
          /\ \A i \in 1..(Len(Written) - 1) : Written[i] # WorkerMarkerLine(proc.running.id)]_vars

(***************************************************************************)
(* The interpreter on applyMovement commands, for an owner whose local     *)
(* axes are the world's or a quarter turn away from them.                  *)
(***************************************************************************)
MovementCmds ==
    {CmdApplyMovement("Player", MainScene, JArr(<<1, 0, 0>>)),
     CmdApplyMovement("", MainScene, JArr(<<0, 2, 5>>)),
     CmdApplyMovement("Player", MainScene, JArr(<<1, 2>>)),
     CmdApplyMovement("Player", MainScene, JNull),
     CmdApplyMovement("Ghost", MainScene, JArr(<<1, 0, 0>>)),
     [NoCmd EXCEPT !.op = "applyMovement", !.object = "Player", !.value = JArr(<<3, 0, 0>>)]}

InitMovement ==
    /\ world \in {[InitWorld EXCEPT !["Player"].worldOrientation = q] : q \in 0..1}
    /\ raycast_results = [o \in ObjNames |-> NoRay]
    /\ vehicle_constraints = [o \in ObjNames |-> NoVehicle]
    /\ game = "running"
    /\ gravity = DefaultGravity
    /\ batch = NoBatch
    /\ InitRuntime(FALSE)

NextMovement ==
    /\ ~batch.done
    /\ \E commands \in SeqsUpTo(MovementCmds, MaxCmds), hit \in RayHits :
          \E faults \in [1..Len(commands) -> HostFaults] :
              ApplyBatch(commands, "Player", faults, hit)

SpecMovement == InitMovement /\ [][NextMovement]_vars

(***************************************************************************)
(* C31: the fallback of applyMovement.                                     *)
(***************************************************************************)
\* The vector command i carries, in `vec` or else in `value`.
GivenVec(cmd) == IF Truthy(cmd.vec) THEN cmd.vec ELSE cmd.value

\* Command i is an applyMovement with a vector, for an object of the scene.
MovesObject(i) ==
    /\ batch.commands[i].op = "applyMovement"
    /\ IsVec3(GivenVec(batch.commands[i]))
    /\ ~TargetMissing(i)

\* C31: for an applyMovement command with vector v on an object of the scene,
\* when the host's applyMovement raises and the position can be written, the
\* object's world position becomes its previous world position plus v,
\* component by component; when applyMovement succeeds the object has moved
\* by what the primitive moved it (v along the object's own axes) and v is not
\* summed in a second time; nothing else of the host changes.
C31_FallbackAddsOnce ==
    batch.done =>
        \A i \in 1..Len(batch.commands) :
            MovesObject(i) =>
                LET before == batch.trace[i]
                    o == TargetName(batch.commands[i], batch.context)
                    v == GivenVec(batch.commands[i]).a
                    applied == LocalToWorld(before.world[o].worldOrientation, v)
                IN /\ batch.faults[i] = "primary" =>
                        batch.trace[i + 1] =
                           [before EXCEPT !.world[o].worldPosition =
                               <<@[1] + v[1], @[2] + v[2], @[3] + v[3]>>]
                   /\ batch.faults[i] = "ok" =>
                        batch.trace[i + 1] =
                           [before EXCEPT !.world[o].worldPosition =
                               <<@[1] + applied[1], @[2] + applied[2], @[3] + applied[3]>>]
                   /\ batch.faults[i] = "all" => batch.trace[i + 1] = before

\* The turned Player at [1,2,3] is moved by [1,0,0] twice, first with the
\* primitive raising and then with the primitive working: the fallback takes
\* it to [2,2,3] and the primitive from there to [2,3,3].
C31_Witness ==
    /\ batch.done
    /\ batch.commands = <<CmdApplyMovement("Player", MainScene, JArr(<<1, 0, 0>>)),
                          CmdApplyMovement("Player", MainScene, JArr(<<1, 0, 0>>))>>
    /\ batch.faults = <<"primary", "ok">>
    /\ batch.trace[1].world["Player"].worldOrientation = 1
    /\ batch.trace[1].world["Player"].worldPosition = <<1, 2, 3>>
    /\ batch.trace[2].world["Player"].worldPosition = <<2, 2, 3>>
    /\ world["Player"].worldPosition = <<2, 3, 3>>

(***************************************************************************)
(* Sessions in which calls fail: the interpreter is missing, the process   *)
(* is killed at the timeout, dies without a word or exits with code 1, the *)
(* worker cannot be started or has gone.  One script prints a marker line  *)
(* of its own, with commands, before it throws.                            *)
(***************************************************************************)
ForgedCommands ==
    <<Marker, JsonArray(<<CmdSetPosition("Enemy", MainScene, V456), CmdGlobal("endGame")>>)>>

FailureScripts ==
    {<<StSetPosition("", V456)>>,
     <<StQueue(CmdRayCast("Player", MainScene, JArr(<<0, 0, 9>>))),
       StQueue(CmdCreateVehicle("Player", MainScene))>>,
     <<StLog(ForgedCommands), StThrow("boom")>>,
     <<StLog(ForgedCommands)>>,
     <<StSetPosition("", V000), StThrow("boom")>>}

NextFailure ==
    \/ \E script \in FailureScripts, owner \in Owners, startFails \in BOOLEAN :
          Invoke(script, owner, startFails)
    \/ Send
    \/ \E late \in BOOLEAN : ReadLine(late, "ok", RayHitEnemy)
    \/ ReadEOF("ok", RayHitEnemy)
    \/ WorkerBegin
    \/ WorkerFinish
    \/ \E script \in FailureScripts, owner \in Owners, outcome \in AttemptOutcomes :
          /\ calls < MaxCalls
          /\ ExecuteEphemeral(script, owner, outcome, "ok", RayHitEnemy)

SpecFailure == Init /\ [][NextFailure]_vars

(***************************************************************************)
(* C32: a failed call applies nothing.                                     *)
(***************************************************************************)
\* The commands of the first marker line of the output returned last.
Offered == ExtractCommands(run.output)

\* C32: a call of execute_controller_script in which execute_with_context
\* reports success = false leaves the host objects, the ray-cast results
\* table, the vehicle constraint table and the game as they were, and applies
\* no batch, whatever the output holds.
C32_FailureAppliesNothing ==
    [][(ret'.n # ret.n /\ ~run'.success) =>
          /\ world' = world
          /\ raycast_results' = raycast_results
          /\ vehicle_constraints' = vehicle_constraints
          /\ game' = game
          /\ gravity' = gravity
          /\ batch' = batch
          /\ ret'.applied = <<>>]_vars

\* A second call that failed with a marker line of two commands in its
\* output, after a first one that had cast a ray and created a vehicle: the
\* Enemy is where it was, the game runs, and both tables are as the first
\* call left them.
C32_Witness ==
    /\ ret.returned /\ ret.n = 2 /\ ~ret.success /\ ~run.success
    /\ Len(Offered) = 2
    /\ batch.done /\ Len(batch.commands) = 2
    /\ raycast_results["Player"] = RayOf(RayHitEnemy)
    /\ vehicle_constraints["Player"].has
    /\ world = InitWorld /\ game = "running"

(***************************************************************************)
(* C33: a failed input stays in the context.                               *)
(***************************************************************************)
\* `short` is the beginning of `long`.
StartsWith(long, short) ==
    Len(short) <= Len(long) /\ SubSeq(long, 1, Len(short)) = short

EndsWith(long, short) ==
    Len(short) <= Len(long) /\ SubSeq(long, Len(long) - Len(short) + 1, Len(long)) = short

\* C33: no call of execute_interactive shortens or clears the accumulated
\* code of a context; a call that has the interpreter's path leaves its input
\* at the end of its context's accumulated code whether the evaluation
\* succeeds, fails or times out, and what it evaluates is the whole
\* accumulated code, the inputs that failed before included.
C33_FailedInputKept ==
    [][\A id \in ConsoleIds :
          LET before == interactive_context[id].accumulated_code
              after == interactive_context'[id].accumulated_code
              input == Last(console'.inputs[id])
          IN /\ StartsWith(after, before)
             /\ (console'.id = id /\ console'.found) =>
                   /\ EndsWith(after, input.code)
                   /\ before # <<>> => Len(after) = Len(before) + 1 + Len(input.code)
                   /\ console'.evaluated = after]_vars

\* The input 'b' fails on the default console, and the next call there, with
\* input a, evaluates both.
C33_Witness ==
    /\ console.n = 2 /\ console.id = "default" /\ console.found
    /\ Len(console.inputs["default"]) = 2
    /\ console.inputs["default"][1].code = <<"QUOTE", "b", "QUOTE">>
    /\ console.inputs["default"][1].found
    /\ console.inputs["default"][1].outcome \in {"error", "timeout"}
    /\ console.inputs["default"][2].code = <<"a">>
    /\ console.evaluated = <<"QUOTE", "b", "QUOTE", "NL", "a">>
    /\ interactive_context["default"].accumulated_code = console.evaluated

(***************************************************************************)
(* The interpreter on global commands, for a snapshot with the Player as   *)
(* owner and for a snapshot without an owner.                              *)
(***************************************************************************)
CmdSetGravity(o, v) == [NoCmd EXCEPT !.op = "setGravity", !.object = o, !.vec = v]

GlobalCmds ==
    {CmdGlobal("endGame"),
     [CmdGlobal("endGame") EXCEPT !.object = "Ghost"],
     CmdGlobal("restartGame"),
     [CmdGlobal("restartGame") EXCEPT !.object = "Ghost"],
     CmdSetGravity("", JArr(<<0, 0, -5>>)),
     CmdSetGravity("Ghost", JArr(<<1, 2, 3>>)),
     CmdSetGravity("", JNull),
     CmdSetGravity("", JArr(<<1, 2>>)),
     CmdSetGravity("", JNum(7)),
     [NoCmd EXCEPT !.op = "setGravity", !.value = JArr(<<0, 0, -5>>)],
     CmdSetPosition("", "", V456),
     CmdSetPosition("Ghost", "", V456)}

NextGlobal ==
    /\ ~batch.done
    /\ \E commands \in SeqsUpTo(GlobalCmds, MaxCmds), owner \in {"Player", ""} :
          \E faults \in [1..Len(commands) -> {"ok", "all"}] :
              ApplyBatch(commands, owner, faults, RayMiss)

SpecGlobal == InitSnapshot /\ [][NextGlobal]_vars

(***************************************************************************)
(* C34: global commands need no object.                                    *)
(***************************************************************************)
\* C34: an endGame, restartGame or setGravity command of the batch, when the
\* host call it makes does not raise, ends the game, restarts it, or sets the
\* gravity to the first three numbers of its vector (to the default when it
\* carries none), whether the command names no object, names an object the
\* scene does not have, or the snapshot has no owner; it changes nothing else.
C34_GlobalNeedsNoObject ==
    batch.done =>
        \A i \in 1..Len(batch.commands) :
            LET cmd == batch.commands[i]
                before == batch.trace[i]
                after == batch.trace[i + 1]
                v == GivenVec(cmd)
            IN batch.faults[i] = "ok" =>
                  /\ cmd.op = "endGame" => after = [before EXCEPT !.game = "ended"]
                  /\ cmd.op = "restartGame" => after = [before EXCEPT !.game = "restarted"]
                  /\ (cmd.op = "setGravity" /\ IsVec3(v)) =>
                        after = [before EXCEPT !.gravity = <<v.a[1], v.a[2], v.a[3]>>]
                  /\ (cmd.op = "setGravity" /\ ~Truthy(v)) =>
                        after = [before EXCEPT !.gravity = DefaultGravity]

\* Without an owner in the snapshot, a setGravity naming an object the scene
\* does not have and an endGame naming none have both taken effect, while a
\* setPosition in the same place would have had no object to act on.
C34_Witness ==
    /\ batch.done
    /\ batch.context.object_name = ""
    /\ batch.commands = <<CmdSetGravity("Ghost", JArr(<<1, 2, 3>>)), CmdGlobal("endGame")>>
    /\ batch.trace[1].gravity = DefaultGravity /\ batch.trace[1].game = "running"
    /\ gravity = <<1, 2, 3>>
    /\ game = "ended"
    /\ world = batch.trace[1].world

(***************************************************************************)
(* The interpreter with a snapshot whose scene may be gone from the scene  *)
(* list by the time the batch is applied.                                  *)
(***************************************************************************)
StaleCmds ==
    {CmdGlobal("endGame"),
     CmdSetGravity("", JArr(<<0, 0, -5>>)),
     CmdSetPosition("Player", "", V456),
     CmdCreateVehicle("Player", ""),
     CmdRayCast("Player", "", JArr(<<0, 0, 9>>))}

SnapshotScenes == {MainScene, "Intro", ""}

NextStale ==
    /\ ~batch.done
    /\ \E commands \in SeqsUpTo(StaleCmds, MaxCmds), scene_name \in SnapshotScenes,
          lookup \in HostFaults :
          \E faults \in [1..Len(commands) -> {"ok", "all"}] :
              ApplyBatchIn(commands, [BuildContext(world, "Player") EXCEPT !.scene_name = scene_name],
                           faults, RayHitEnemy, lookup)

SpecStale == InitSnapshot /\ [][NextStale]_vars

(***************************************************************************)
(* C35: a snapshot whose scene is gone.                                    *)
(***************************************************************************)
\* The snapshot names a scene and no live scene has that name.
SceneGone == batch.context.scene_name # "" /\ batch.context.scene_name \notin SceneList

\* No command of the batch was applied.
NothingApplied ==
    /\ batch.trace = <<Host(world, raycast_results, vehicle_constraints, game, gravity)>>
    /\ world = InitWorld /\ game = "running" /\ gravity = DefaultGravity
    /\ \A o \in ObjNames : ~raycast_results[o].has /\ ~vehicle_constraints[o].has

\* C35 as stated: if the snapshot's scene name is non-empty and matches no
\* live scene, no command of the batch is applied, global commands
\* included, and the current scene is not used in its place.
C35_StaleSceneAppliesNothing ==
    (batch.done /\ SceneGone) => NothingApplied

\* C35 as it holds: if the snapshot's scene name is non-empty and matches no
\* live scene, no command of the batch is applied, global commands
\* included, unless the lookup in the scene list raises: then the current
\* scene is used in its place and every command is interpreted there (or
\* none, when getCurrentScene raises too).
C35_StaleSceneUnlessLookupRaises ==
    (batch.done /\ SceneGone) =>
        /\ batch.lookup \in {"ok", "all"} => NothingApplied
        /\ batch.lookup = "primary" =>
              /\ Len(batch.trace) = Len(batch.commands) + 1
              /\ \A j \in 1..Len(batch.commands) :
                    batch.trace[j + 1] =
                       ApplyOne(batch.trace[j], batch.commands[j], batch.context,
                                MainScene, batch.faults[j], batch.hit)

\* A batch of endGame and setPosition for a snapshot of the scene Intro,
\* which is gone: the game runs and the Player is where it was.
C35_Witness ==
    /\ batch.done /\ SceneGone /\ batch.lookup = "ok"
    /\ batch.commands = <<CmdGlobal("endGame"), CmdSetPosition("Player", "", V456)>>
    /\ batch.faults = <<"ok", "ok">>
    /\ game = "running"
    /\ world["Player"].worldPosition = <<1, 2, 3>>

(***************************************************************************)
(* The interpreter on sceneAddObject commands in the game with two scenes. *)
(***************************************************************************)
CmdSceneAddObject(o, s) == [NoCmd EXCEPT !.op = "sceneAddObject", !.object = o, !.scene = s]

AddCmds ==
    {CmdSceneAddObject("Sign", MainScene),
     CmdSceneAddObject("Sign", HudScene),
     CmdSceneAddObject("Enemy", MainScene),
     CmdSceneAddObject("Ghost", MainScene),
     CmdSceneAddObject("", MainScene),
     CmdSetPosition("Enemy", MainScene, V456)}

NextAdd ==
    /\ ~batch.done
    /\ \E commands \in SeqsUpTo(AddCmds, MaxCmds), owner \in {"Player", "Sign"} :
          \E faults \in [1..Len(commands) -> {"ok", "all"}] :
              ApplyBatch(commands, owner, faults, RayMiss)

SpecAdd == InitScenes /\ [][NextAdd]_vars

(***************************************************************************)
(* C36: where the object of a sceneAddObject may come from.                *)
(***************************************************************************)
\* Command i is a sceneAddObject whose target scene is the scene of the
\* batch, with the owner of the snapshot in it and a host that does not raise.
AddsInto(i) ==
    /\ batch.commands[i].op = "sceneAddObject"
    /\ batch.commands[i].scene = ResolveScene(batch.context)
    /\ batch.faults[i] = "ok"

\* C36: a sceneAddObject command naming an object that is not in the target
\* scene but is in another scene puts a copy of that object in the target
\* scene.
C36_AddsFromAnyScene ==
    batch.done =>
        \A i \in 1..Len(batch.commands) :
            LET o == batch.commands[i].object
                before == batch.trace[i]
            IN (/\ AddsInto(i)
                /\ o \in DOMAIN before.world
                /\ before.world[o].scene \in SceneList
                /\ before.world[o].scene # batch.commands[i].scene) =>
                   batch.trace[i + 1] =
                      [before EXCEPT !.world[o].replicas = Append(@, batch.commands[i].scene)]

\* What holds instead: a copy of an object of the target scene is added, and
\* the command does nothing for an object of another scene.
C36_AddsFromOwnSceneOnly ==
    batch.done =>
        \A i \in 1..Len(batch.commands) :
            LET o == batch.commands[i].object
                before == batch.trace[i]
            IN (AddsInto(i) /\ o \in DOMAIN before.world) =>
                   batch.trace[i + 1] =
                      IF before.world[o].scene = batch.commands[i].scene
                      THEN [before EXCEPT !.world[o].replicas = Append(@, batch.commands[i].scene)]
                      ELSE before

\* The Enemy, an object of Main, was added to Main; the Sign of HUD, named by
\* the command before, was not.
C36_Witness ==
    /\ batch.done
    /\ batch.context.object_name = "Player"
    /\ batch.commands = <<CmdSceneAddObject("Sign", MainScene), CmdSceneAddObject("Enemy", MainScene)>>
    /\ batch.faults = <<"ok", "ok">>
    /\ world["Enemy"].replicas = <<MainScene>>
    /\ world["Sign"].replicas = <<>>

(***************************************************************************)
(* Sessions of scripts that cast rays, create vehicles, and end or restart *)
(* the game.                                                               *)
(***************************************************************************)
TableScripts ==
    {<<StQueue(CmdRayCast("", "", JArr(<<0, 0, 9>>))), StQueue(CmdCreateVehicle("", ""))>>,
     <<StQueue(CmdRayCast("Enemy", "", JArr(<<0, 0, 9>>)))>>,
     <<StQueue(CmdRayCastTo("", "", "Enemy"))>>,
     <<StQueue(CmdCreateVehicle("", "")), StQueue(CmdVehicleApplyEngineForce("", "", JNum(5)))>>,
     <<StQueue(CmdGlobal("endGame")), StQueue(CmdCreateVehicle("", ""))>>,
     <<StQueue(CmdGlobal("restartGame")), StQueue(CmdRayCast("", "", JArr(<<0, 0, 9>>)))>>,
     <<StQueue(CmdGlobal("restartGame"))>>,
     <<StQueue(CmdGlobal("endGame"))>>,
     <<StThrow("boom")>>}

NextTables ==
    /\ calls < MaxCalls
    /\ \E script \in TableScripts, owner \in Owners, outcome \in {"ran", "timeout"},
          faultKind \in {"ok", "all"}, hit \in RayHits :
          ExecuteEphemeral(script, owner, outcome, faultKind, hit)

SpecTables == InitSnapshot /\ [][NextTables]_vars

(***************************************************************************)
(* C37: the two tables only grow.                                          *)
(***************************************************************************)
\* C37: no invocation removes a key from the ray-cast results table or from
\* the vehicle constraint table, not even one that interprets endGame or
\* restartGame, and a vehicle entry keeps the handle it was first given.
C37_TablesOnlyGrow ==
    [][\A o \in ObjNames :
          /\ raycast_results[o].has => raycast_results'[o].has
          /\ vehicle_constraints[o].has =>
                /\ vehicle_constraints'[o].has
                /\ vehicle_constraints'[o].id = vehicle_constraints[o].id]_vars

\* A second invocation that restarted the game and cast a ray, after a first
\* one that had cast a ray and created the Player's vehicle: both entries are
\* there, the vehicle with its first handle.
C37_Witness ==
    /\ ret.returned /\ ret.n = 2 /\ ret.success
    /\ batch.commands = <<CmdGlobal("restartGame"), CmdRayCast("", "", JArr(<<0, 0, 9>>))>>
    /\ batch.trace[1].raycast["Player"] = RayOf(RayHitEnemy)
    /\ batch.trace[1].vehicles["Player"].has
    /\ game = "restarted"
    /\ raycast_results["Player"].has
    /\ vehicle_constraints["Player"] = batch.trace[1].vehicles["Player"]
    /\ vehicle_constraints["Player"].id = 1

(***************************************************************************)
(* C38: the shape of the value returned.                                   *)
(***************************************************************************)
\* C38: whatever the outcome of the channel (interpreter missing, timeout,
\* non-zero exit with or without error output, clean exit, and in worker mode
\* a worker that cannot start, a broken pipe, an accepted line, the deadline
\* or the end of the worker's output), the value execute_controller_script
\* returns is (True, None) or (False, text) with a text that is not empty.
C38_TrueNoneOrFalseText ==
    ret.returned =>
        \/ ret.success /\ ret.none /\ ret.error = <<>>
        \/ ~ret.success /\ ~ret.none /\ ret.error # <<>>
              /\ \E i \in 1..Len(ret.error) : ret.error[i] # <<>>

\* A process that exits with a non-zero code and has written nothing: the
\* channel's error text is empty and the text returned is not.
C38_Witness ==
    /\ ret.returned /\ ~ret.success /\ ~ret.none
    /\ run.how = "crashed" /\ run.output = <<>> /\ run.error_output = <<>>
    /\ ret.error # <<>>

(***************************************************************************)
(* Setting controllers up for JavaScript (ui.py, python_wrapper.py lines   *)
(* 424-465): a script file is loaded into a text block named after it and  *)
(* given to a controller, and the set-up operator puts a wrapper text in   *)
(* its place.                                                              *)
(***************************************************************************)
ScriptNames ==
    {<<"a", "-", "b", ".", "j", "s">>,
     <<"a", "_", "b", ".", "j", "s">>,
     <<"a", ".", "b", ".", "j", "s">>,
     <<"c", ".", "m", "j", "s">>,
     <<"d", ".", "p", "y">>}

\* Line 427: script_name.replace('.', '_').replace('-', '_').
SafeName(script_name) == Replace(Replace(script_name, ".", <<"_">>), "-", <<"_">>)

\* Line 428: f"__js_wrapper_{safe_name}__".
WrapperName(script_name) == <<"__js_wrapper_">> \o SafeName(script_name) \o <<"__">>

\* Line 453: script_name.endswith(('.js', '.mjs')).
IsJsName(script_name) ==
    EndsWith(script_name, <<".", "j", "s">>) \/ EndsWith(script_name, <<".", "m", "j", "s">>)

\* create_wrapper_script(script_name), lines 424-441: the text block of that
\* wrapper name, new or not, holds the template with SCRIPT_NAME = script_name.
CreateWrapperScript(blocks, script_name) ==
    [name \in DOMAIN blocks \cup {WrapperName(script_name)} |->
        IF name = WrapperName(script_name)
        THEN [wrapper |-> TRUE, script_name |-> script_name]
        ELSE blocks[name]]

\* LOGIC_OT_load_js_ts_from_file.execute (ui.py lines 95-131): the file's
\* contents go to the text block named after the file, which the controller
\* then has as its text.
LoadJsFromFile(c, basename) ==
    /\ setup.loads < MaxCalls + 1
    /\ texts' = [name \in DOMAIN texts \cup {basename} |->
                    IF name = basename THEN [wrapper |-> FALSE, script_name |-> <<>>]
                    ELSE texts[name]]
    /\ controller_text' = [controller_text EXCEPT ![c] = basename]
    /\ setup' = [setup EXCEPT !.script[c] = <<>>, !.loads = @ + 1]
    /\ UNCHANGED <<hostVars, batch, use_worker, workerVars, pc, call, run, js, ret, calls, wire,
                   children, built, interactive_context, console>>

\* assign_wrapper_to_controller(controller), lines 444-465.
AssignWrapperToController(c) ==
    LET script_name == controller_text[c]
    IN /\ setup.calls < MaxCalls
       /\ IF script_name = <<>> \/ ~IsJsName(script_name)
          THEN /\ UNCHANGED <<texts, controller_text>>
               /\ setup' = [setup EXCEPT !.calls = @ + 1]
          ELSE /\ texts' = CreateWrapperScript(texts, script_name)
               /\ controller_text' = [controller_text EXCEPT ![c] = WrapperName(script_name)]
               /\ setup' = [setup EXCEPT !.script[c] = script_name, !.calls = @ + 1]
       /\ UNCHANGED <<hostVars, batch, use_worker, workerVars, pc, call, run, js, ret, calls, wire,
                      children, built, interactive_context, console>>

NextWrappers ==
    \/ \E c \in Controllers, basename \in ScriptNames : LoadJsFromFile(c, basename)
    \/ \E c \in Controllers : AssignWrapperToController(c)

SpecWrappers == InitSnapshot /\ [][NextWrappers]_vars

(***************************************************************************)
(* C39: each controller's wrapper runs the controller's script.            *)
(***************************************************************************)
\* The script the text of controller c executes when c is a wrapper:
\* SCRIPT_NAME of the template (python_wrapper.py lines 28 and 385-397).
Executes(c) == texts[controller_text[c]].script_name

SetUp(c) == setup.script[c] # <<>>

\* C39: after any sequence of assign_wrapper_to_controller calls, the text
\* of every controller that was set up is a wrapper that executes the script
\* the controller had when it was set up, and controllers set up for two
\* different scripts do not have the same wrapper text block.
C39_WrapperRunsOwnScript ==
    /\ \A c \in Controllers :
          SetUp(c) =>
             /\ texts[controller_text[c]].wrapper
             /\ Executes(c) = setup.script[c]
    /\ \A c1, c2 \in Controllers :
          (SetUp(c1) /\ SetUp(c2) /\ setup.script[c1] # setup.script[c2]) =>
              controller_text[c1] # controller_text[c2]

\* What holds instead: the wrapper of a controller that was set up executes
\* a script whose name differs from the controller's at most in '.', '-'
\* and '_', the one the wrapper block was last written for.
C39_WrapperRunsScriptOfSameSafeName ==
    \A c \in Controllers :
        SetUp(c) =>
           /\ texts[controller_text[c]].wrapper
           /\ controller_text[c] = WrapperName(setup.script[c])
           /\ SafeName(Executes(c)) = SafeName(setup.script[c])

\* Two controllers set up for two scripts with names that do not collide.
C39_Witness ==
    /\ setup.script["c1"] = <<"a", "-", "b", ".", "j", "s">>
    /\ setup.script["c2"] = <<"c", ".", "m", "j", "s">>
    /\ Executes("c1") = setup.script["c1"]
    /\ Executes("c2") = setup.script["c2"]
    /\ controller_text["c1"] # controller_text["c2"]

====
